---- MODULE Spec2Model ----
(***************************************************************************)
(* Model of eclaircp's MCP client layer (src/src/eclaircp/mcp.py):         *)
(* MCPClientManager (connect with retry and capped exponential backoff,    *)
(* disconnect, list_tools, call_tool, get_strands_tools) and the tool      *)
(* wrapper built by MCPToolProxy.create_strands_tool; and of the session   *)
(* layer (src/src/eclaircp/session.py): SessionManager.start_session,      *)
(* process_input, _convert_strands_event and end_session.                  *)
(*                                                                         *)
(* The manager's methods are coroutines.  A coroutine runs without         *)
(* interruption until it awaits a transport primitive (stdio_client,       *)
(* initialize, list_tools, call_tool, close) or asyncio.sleep; each action *)
(* below is the code between two such suspension points.  The outcome of   *)
(* a transport primitive is chosen when the coroutine is resumed.          *)
(*                                                                         *)
(* Optional values are sequences of length at most one: <<>> is None.      *)
(* Messages are sequences of string tokens, so that "the message contains" *)
(* is a statement about tokens.                                            *)
(***************************************************************************)
EXTENDS Integers, Sequences, FiniteSets, TLC

VARIABLES mgr, tasks, wrappers, done, sess, turn, sdone, handler, hlog, hseen,
          cli

vars == <<mgr, tasks, wrappers, done, sess, turn, sdone, handler, hlog, hseen, cli>>

\* a StreamingHandler, the tool_use events it was handed since it was built
\* or last reset (hlog), and what its caller did with it (hseen): the last
\* method called, the calls of handle_stream_event and the data of the text
\* events since it was built or last reset, and the handler as the last
\* reset found it
hvars == <<handler, hlog, hseen>>

(***************************************************************************)
(* Bounds and input domains                                                *)
(***************************************************************************)
\* largest retry_attempts explored by the sequential specification
MaxRetry == 3
\* largest retry_attempts explored by the retry specification
MaxRetryLong == 6
\* largest retry_attempts explored by the concurrent specification
MaxRetryConc == 2
\* longest discovery answer
MaxTools == 2
MaxEvents == 2
MaxRecorded == 6
MaxTurns == 2

\* retry_attempts: int = Field(default=3, ge=1, le=10)
MinRetryAttempts == 1
MaxRetryAttempts == 10
\* wait_time = min(2 ** attempt, 10)
BackoffBase == 2
BackoffCap == 10

Tasks == {1, 2}
\* the caller of the sequential specifications
SeqTask == CHOOSE t \in Tasks : \A u \in Tasks : t <= u
ServerNames == {"alpha", "beta"}
Timeouts == {5}
\* tool names as the server reports them
RawNames == {"search", " read ", ""}
ArgSets == {"{}", "{q:x}"}
\* names a caller may pass to call_tool
CallNames == {"search", "read", "write"}

None == <<>>
Some(x) == <<x>>

Min(a, b) == IF a < b THEN a ELSE b

RECURSIVE Pow(_, _)
Pow(b, e) == IF e = 0 THEN 1 ELSE b * Pow(b, e - 1)

RECURSIVE SumSeq(_)
SumSeq(s) == IF s = <<>> THEN 0 ELSE Head(s) + SumSeq(Tail(s))

\* s occurs in t as a contiguous run of tokens
IsInfix(s, t) ==
  \E i \in 0..(Len(t) - Len(s)) : SubSeq(t, i + 1, i + Len(s)) = s

(***************************************************************************)
(* config.py                                                               *)
(***************************************************************************)
MCPServerConfig(rmax) ==
  [name : ServerNames,
   timeout : Timeouts,
   retry_attempts : MinRetryAttempts..Min(rmax, MaxRetryAttempts)]

ConnectionStatus(server_name, connected, connection_time, error_message, available_tools) ==
  [server_name |-> server_name,
   connected |-> connected,
   connection_time |-> connection_time,
   error_message |-> error_message,
   available_tools |-> available_tools]

\* str.strip() on the names the model uses
Strip(n) == IF n = " read " THEN "read" ELSE n

\* ToolInfo.validate_name rejects a name that is empty once stripped
ToolInfoValid(n) == Strip(n) # ""

ToolInfo(n) == [name |-> Strip(n)]

RECURSIVE SeqsUpTo(_, _)
SeqsUpTo(S, n) ==
  IF n = 0 THEN {<<>>}
  ELSE LET shorter == SeqsUpTo(S, n - 1)
       IN shorter \cup {Append(s, x) : s \in shorter, x \in S}

Injective(s) == \A i, j \in 1..Len(s) : i # j => s[i] # s[j]

\* answers of the transport's list_tools: distinct reported names
Discovery == {s \in SeqsUpTo(RawNames, MaxTools) : Injective(s)}

(***************************************************************************)
(* Exceptions and messages                                                 *)
(***************************************************************************)
Exc(type, msg) == [type |-> type, msg |-> msg]

NotConnectedMsg == <<"Not connected to any MCP server">>
SessionUnavailableMsg == <<"Client session is not available">>

SpawnError == Exc("OSError", <<"spawn failed">>)
HandshakeError == Exc("Exception", <<"handshake failed">>)
DiscoveryError == Exc("Exception", <<"list_tools failed">>)
NoneSessionError == Exc("AttributeError", <<"'NoneType' object has no attribute 'list_tools'">>)
ToolInfoError == Exc("ValidationError", <<"Tool name cannot be empty">>)
InvokeError == Exc("Exception", <<"invoke failed">>)

TimeoutMsg(config) == <<"Connection timeout after", ToString(config.timeout), "seconds">>

FailedMsg(config, last_error) ==
  <<"Failed to connect to", config.name, "after", ToString(config.retry_attempts), "attempts:">>
    \o last_error.msg

Returned(v) == [kind |-> "return", value |-> v]
Raised(e) == [kind |-> "raise", exc |-> e]

(***************************************************************************)
(* MCPClientManager state                                                  *)
(***************************************************************************)
MgrInit ==
  [connected_server |-> None,
   client_session |-> None,
   server_process |-> None,
   connection_status |-> ConnectionStatus("", FALSE, None, None, <<>>),
   available_tools |-> <<>>]

\* variant: the status flag is not consulted
is_connected_handle_only(m) == m.client_session # None

is_connected(m) == m.connection_status.connected /\ m.client_session # None

get_connection_status(m) == m.connection_status

\* a ClientSession object: the one task t built for config
ClientSession(t, config) == [server |-> config.name, by |-> t]

\* one call of a transport primitive
TCall(prim, session, name, args) ==
  [prim |-> prim, session |-> session, name |-> name, args |-> args]

(***************************************************************************)
(* Task (coroutine) state                                                  *)
(***************************************************************************)
\* calls: the close, terminate and call_tool calls the coroutine has made;
\* attempts: the connection attempts it has started; failures: the attempts
\* that ended in its except clause; slept: its backoff sleeps; handshake:
\* how the wait for initialize() of its last attempt ended ("": not yet);
\* pre: the manager as the call found it (kept for the calls that suspend at
\* most once: disconnect, list_tools, call_tool, get_strands_tools)
Idle ==
  [pc |-> "idle", op |-> "", config |-> None, attempt |-> 0,
   last_error |-> None, name |-> "", args |-> "",
   calls |-> <<>>, attempts |-> 0, failures |-> 0, slept |-> <<>>,
   handshake |-> "", pre |-> None]

\* done describes the call that has just ended (op = "" when the last step
\* was not the end of a call); after_disconnect tells whether the call that
\* ended before it was a disconnect
NoDone ==
  [task |-> 0, op |-> "", after_disconnect |-> FALSE, last_disconnect |-> FALSE,
   result |-> Returned(None), inner |-> None,
   calls |-> <<>>, attempts |-> 0, failures |-> 0, slept |-> <<>>,
   handshake |-> "", last_error |-> None,
   pre |-> None, post |-> None,
   config |-> None, name |-> "", args |-> ""]

(***************************************************************************)
(* SessionManager state (session.py 22-35)                                 *)
(***************************************************************************)
SessInit ==
  [session_active |-> FALSE,
   agent |-> None,
   tools |-> <<>>,
   streaming_handler |-> None]

\* the session coroutine or generator in progress.  out: the stream events
\* it has yielded; raws: the raw events the engine has produced for it;
\* engine_calls: its calls of stream_async; stream: how the engine's stream
\* came to its end ("ended", "raised"); pre: the session as it found it
NoTurn ==
  [pc |-> "idle", op |-> "", input |-> "", out |-> <<>>, raws |-> <<>>,
   engine_calls |-> 0, stream |-> "", pre |-> None]

\* sdone describes the session call that has just ended (op = "" when the
\* last step was not the end of a session call).  engine_built: the Agent
\* constructions it attempted; fault: whether a step of its cleanup raised
NoSDone ==
  [op |-> "", result |-> Returned(None), input |-> "", out |-> <<>>, raws |-> <<>>,
   engine_calls |-> 0, stream |-> "", engine_built |-> 0, fault |-> FALSE,
   pre |-> None, post |-> None]

\* StreamingHandler.__init__ (session.py 234-246); the two dicts are
\* sequences of key and value in insertion order
StreamingHandlerInit ==
  [tool_usage_count |-> <<>>,
   total_events_processed |-> 0,
   current_tool_executions |-> <<>>,
   response_buffer |-> <<>>]

\* nothing was called on the handler yet
NoCalls ==
  [op |-> "none", calls |-> 0, texts |-> <<>>, pre |-> StreamingHandlerInit]

\* the workflow of CLIApp.run (cli.py).  pc: its position ("off": no run);
\* code: its exit code; end_calls: its calls of end_session; turns: the
\* turns it started; handled: the stream events of the turn it has handled;
\* dropped: the generators of process_input it left before their end and
\* that are not finalized yet, each with whether its engine stream is open
CliOff ==
  [pc |-> "off", code |-> -1, end_calls |-> 0, turns |-> 0, handled |-> 0,
   dropped |-> <<>>, interrupted |-> FALSE]

Init ==
  /\ mgr = MgrInit
  /\ tasks = [t \in Tasks |-> Idle]
  /\ wrappers = <<>>
  /\ done = NoDone
  /\ sess = SessInit
  /\ turn = NoTurn
  /\ sdone = NoSDone
  /\ handler = StreamingHandlerInit
  /\ hlog = <<>>
  /\ hseen = NoCalls
  /\ cli = CliOff

\* the sequential caller: one call at a time, each awaited to its end
CanStartSeq(t) == t = SeqTask /\ \A u \in Tasks : tasks[u].pc = "idle"
\* concurrent callers (asyncio tasks sharing the manager)
CanStartConc(t) == tasks[t].pc = "idle"

Start(t, op) == [Idle EXCEPT !.op = op, !.pre = Some(mgr)]

\* the coroutine of task t ends with result res, leaving the manager as m
Finish(t, r, res, inner, m) ==
  /\ mgr' = m
  /\ tasks' = [tasks EXCEPT ![t] = Idle]
  /\ done' = [task |-> t, op |-> r.op,
              after_disconnect |-> done.last_disconnect,
              last_disconnect |-> (r.op = "disconnect"),
              result |-> res, inner |-> inner,
              calls |-> r.calls, attempts |-> r.attempts,
              failures |-> r.failures, slept |-> r.slept,
              handshake |-> r.handshake,
              last_error |-> r.last_error,
              pre |-> r.pre, post |-> Some(m), config |-> r.config,
              name |-> r.name, args |-> r.args]
  /\ sdone' = NoSDone
  /\ UNCHANGED <<sess, turn, hvars, cli>>

\* the coroutine of task t suspends as r
Suspend(t, r, m) ==
  /\ mgr' = m
  /\ tasks' = [tasks EXCEPT ![t] = r]
  /\ done' = [NoDone EXCEPT !.last_disconnect = done.last_disconnect]
  /\ sdone' = NoSDone
  /\ UNCHANGED <<sess, turn, hvars, cli>>

(***************************************************************************)
(* disconnect (mcp.py 127-156)                                             *)
(***************************************************************************)
\* variant: the handle survives the close
drop_session_kept(m) == m

\* line 137: the finally clause drops the session handle
drop_session(m) == [m EXCEPT !.client_session = None]

\* variant: the cache is not cleared
disconnect_cleanup_keeps_cache(m) ==
  [m EXCEPT !.server_process = None,
            !.connected_server = None,
            !.connection_status = ConnectionStatus("", FALSE, None, None, <<>>)]

\* lines 139-156: drop the process handle, reset the status and the cache
disconnect_cleanup(m) ==
  [m EXCEPT !.server_process = None,
            !.connected_server = None,
            !.connection_status = ConnectionStatus("", FALSE, None, None, <<>>),
            !.available_tools = <<>>]

\* lines 140-149: terminate the process if there is one
process_calls(m) ==
  IF m.server_process # None
  THEN <<TCall("terminate", m.server_process, "", "")>>
  ELSE <<>>

\* variant: close is attempted whatever the handle
disconnect_closes_always(m) == TRUE

\* lines 129-132: the session is closed only if there is one
disconnect_closes(m) == m.client_session # None

DisconnectCall(t) ==
  /\ tasks[t].pc = "idle"
  /\ LET r == Start(t, "disconnect") IN
     IF disconnect_closes(mgr)
     THEN Suspend(t, [r EXCEPT !.pc = "d_close",
                               !.calls = <<TCall("close", mgr.client_session, "", "")>>], mgr)
     ELSE Finish(t, [r EXCEPT !.calls = process_calls(mgr)], Returned(None), None,
                 disconnect_cleanup(mgr))
  /\ UNCHANGED wrappers

\* close() returned or raised; either way the finally clause runs
DisconnectCloseResume(t, outcome) ==
  /\ tasks[t].pc = "d_close"
  /\ outcome \in {"ok", "raise"}
  /\ LET r == tasks[t]
         m == drop_session(mgr)
     IN Finish(t, [r EXCEPT !.calls = r.calls \o process_calls(m)], Returned(None), None,
               disconnect_cleanup(m))
  /\ UNCHANGED wrappers

(***************************************************************************)
(* connect (mcp.py 39-125)                                                 *)
(***************************************************************************)
\* variant: connect never tears down
connect_never_disconnects(m) == FALSE

\* line 52: an existing connection is torn down first
connect_disconnects_first(m) == m.client_session # None /\ m.connection_status.connected

\* variant: the backoff is not capped
wait_time_uncapped(attempt) == Pow(BackoffBase, attempt)

\* line 112
wait_time(attempt) == Min(Pow(BackoffBase, attempt), BackoffCap)

\* line 110
more_attempts(attempt, config) == attempt < config.retry_attempts - 1

\* variant: the cause is not recorded
failed_status_no_cause(config, last_error) ==
  ConnectionStatus(config.name, FALSE, None, None, <<>>)

\* lines 118-122
failed_status(config, last_error) ==
  ConnectionStatus(config.name, FALSE, None, Some(last_error.msg), <<>>)

\* lines 85-91
connected_status(config, tools) ==
  ConnectionStatus(config.name, TRUE, Some("now"), None, tools)

\* lines 94-101
cached_tools(tools) == [i \in 1..Len(tools) |-> ToolInfo(tools[i])]

\* line 57 and 69: an attempt starts by spawning the transport
BeginAttempt(r) ==
  [r EXCEPT !.pc = "c_spawn", !.attempts = r.attempts + 1, !.handshake = ""]

\* lines 106-125: the except clause of attempt r.attempt, then the loop's end
AttemptFailed(t, r, e, m) ==
  LET config == r.config[1] IN
  IF more_attempts(r.attempt, config)
  THEN Suspend(t, [r EXCEPT !.pc = "c_sleep",
                            !.last_error = Some(e),
                            !.failures = r.failures + 1,
                            !.slept = Append(r.slept, wait_time(r.attempt))], m)
  ELSE Finish(t, [r EXCEPT !.last_error = Some(e), !.failures = r.failures + 1],
              Raised(Exc("ConnectionError", FailedMsg(config, e))), None,
              [m EXCEPT !.connection_status = failed_status(config, e)])

ConnectCall(t, config) ==
  /\ tasks[t].pc = "idle"
  /\ LET r == [Idle EXCEPT !.op = "connect", !.config = Some(config)] IN
     IF connect_disconnects_first(mgr)
     THEN IF disconnect_closes(mgr)
          THEN Suspend(t, [r EXCEPT !.pc = "c_close",
                                    !.calls = <<TCall("close", mgr.client_session, "", "")>>], mgr)
          ELSE Suspend(t, BeginAttempt([r EXCEPT !.calls = process_calls(mgr)]),
                       disconnect_cleanup(mgr))
     ELSE Suspend(t, BeginAttempt(r), mgr)
  /\ UNCHANGED wrappers

\* the disconnect inside connect resumes after close(), then attempt 0 starts
ConnectCloseResume(t, outcome) ==
  /\ tasks[t].pc = "c_close"
  /\ outcome \in {"ok", "raise"}
  /\ LET r == tasks[t]
         m == drop_session(mgr)
     IN Suspend(t, BeginAttempt([r EXCEPT !.calls = r.calls \o process_calls(m)]),
                disconnect_cleanup(m))
  /\ UNCHANGED wrappers

\* stdio_client answered: line 70 stores the new session, line 74 awaits initialize
ConnectSpawnResume(t, outcome) ==
  /\ tasks[t].pc = "c_spawn"
  /\ outcome \in {"ok", "raise"}
  /\ LET r == tasks[t]
         s == Some(ClientSession(t, r.config[1]))
     IN IF outcome = "ok"
        THEN Suspend(t, [r EXCEPT !.pc = "c_init"], [mgr EXCEPT !.client_session = s])
        ELSE AttemptFailed(t, r, SpawnError, mgr)
  /\ UNCHANGED wrappers

\* variant: the TimeoutError of wait_for leaves connect
ConnectInitResume_timeout_escapes(t, outcome) ==
  /\ tasks[t].pc = "c_init"
  /\ outcome \in {"ok", "raise", "timeout"}
  /\ LET r == [tasks[t] EXCEPT !.handshake = outcome] IN
     CASE outcome = "ok" ->
            IF mgr.client_session = None
            THEN AttemptFailed(t, r, NoneSessionError, mgr)
            ELSE Suspend(t, [r EXCEPT !.pc = "c_list"], mgr)
       [] outcome = "raise" -> AttemptFailed(t, r, HandshakeError, mgr)
       [] outcome = "timeout" ->
            Finish(t, r, Raised(Exc("TimeoutError", <<>>)), None, mgr)
  /\ UNCHANGED wrappers

\* initialize answered or the wait timed out (lines 73-79); line 82 reads
\* the session handle again and lists the tools
ConnectInitResume(t, outcome) ==
  /\ tasks[t].pc = "c_init"
  /\ outcome \in {"ok", "raise", "timeout"}
  /\ LET r == [tasks[t] EXCEPT !.handshake = outcome] IN
     CASE outcome = "ok" ->
            IF mgr.client_session = None
            THEN AttemptFailed(t, r, NoneSessionError, mgr)
            ELSE Suspend(t, [r EXCEPT !.pc = "c_list"], mgr)
       [] outcome = "raise" -> AttemptFailed(t, r, HandshakeError, mgr)
       [] outcome = "timeout" ->
            AttemptFailed(t, r, Exc("ConnectionError", TimeoutMsg(r.config[1])), mgr)
  /\ UNCHANGED wrappers

\* list_tools raised
ConnectListFail(t) ==
  /\ tasks[t].pc = "c_list"
  /\ AttemptFailed(t, tasks[t], DiscoveryError, mgr)
  /\ UNCHANGED wrappers

\* variant: the loop goes on after a successful attempt
ConnectListResume_keeps_trying(t, tools) ==
  /\ tasks[t].pc = "c_list"
  /\ tools \in Discovery
  /\ LET r == tasks[t]
         config == r.config[1]
         m == [mgr EXCEPT !.connected_server = Some(config),
                          !.connection_status = connected_status(config, tools)]
     IN IF \A i \in 1..Len(tools) : ToolInfoValid(tools[i])
        THEN IF more_attempts(r.attempt, config)
             THEN Suspend(t, [r EXCEPT !.pc = "c_sleep",
                                       !.slept = Append(r.slept, wait_time(r.attempt))],
                          [m EXCEPT !.available_tools = cached_tools(tools)])
             ELSE Finish(t, r, Returned(Some(TRUE)), None,
                         [m EXCEPT !.available_tools = cached_tools(tools)])
        ELSE AttemptFailed(t, r, ToolInfoError, m)
  /\ UNCHANGED wrappers

\* list_tools answered: lines 85-91 record the status, lines 94-101 build the
\* cache (ToolInfo validation can raise there), line 104 returns
ConnectListResume(t, tools) ==
  /\ tasks[t].pc = "c_list"
  /\ tools \in Discovery
  /\ LET r == tasks[t]
         config == r.config[1]
         m == [mgr EXCEPT !.connected_server = Some(config),
                          !.connection_status = connected_status(config, tools)]
     IN IF \A i \in 1..Len(tools) : ToolInfoValid(tools[i])
        THEN Finish(t, r, Returned(Some(TRUE)), None,
                    [m EXCEPT !.available_tools = cached_tools(tools)])
        ELSE AttemptFailed(t, r, ToolInfoError, m)
  /\ UNCHANGED wrappers

\* the backoff sleep is over: next attempt
ConnectSleepResume(t) ==
  /\ tasks[t].pc = "c_sleep"
  /\ LET r == tasks[t] IN
     Suspend(t, BeginAttempt([r EXCEPT !.attempt = r.attempt + 1]), mgr)
  /\ UNCHANGED wrappers

(***************************************************************************)
(* list_tools, call_tool, get_strands_tools (mcp.py 176-240)               *)
(***************************************************************************)
\* an item of a result's content list
ContentItems ==
  {[is_dict |-> TRUE, has_text |-> TRUE, text |-> "hello", repr |-> "{'text': 'hello'}"],
   [is_dict |-> TRUE, has_text |-> FALSE, text |-> "", repr |-> "{'type': 'image'}"],
   [is_dict |-> FALSE, has_text |-> FALSE, text |-> "", repr |-> "raw"]}

\* result.model_dump(): what the transport's call_tool can answer; repr is
\* str() of the whole result, content_repr str() of its content field
ToolResults ==
  {[type |-> "dict", has_content |-> FALSE, content_is_list |-> FALSE, items |-> <<>>,
    repr |-> "{'result': 'success'}", content_repr |-> ""],
   [type |-> "dict", has_content |-> TRUE, content_is_list |-> FALSE, items |-> <<>>,
    repr |-> "{'content': 'done'}", content_repr |-> "done"]}
  \cup
  {[type |-> "dict", has_content |-> TRUE, content_is_list |-> TRUE, items |-> its,
    repr |-> "{'content': [...]}", content_repr |-> "[...]"] :
     its \in {<<>>} \cup {<<a, b>> : a, b \in ContentItems}}

tool_names(m) == [i \in 1..Len(m.available_tools) |-> m.available_tools[i].name]

InSeq(x, s) == \E i \in 1..Len(s) : s[i] = x

NotFoundMsg(name, names) == <<"Tool", name, "not found. Available tools:">> \o names

ToolFailedMsg(e) == <<"Tool execution failed:">> \o e.msg

\* variant: the name is not looked up in the cache
call_tool_check_no_lookup(m, name) ==
  IF ~is_connected(m) THEN Some(Exc("ConnectionError", NotConnectedMsg))
  ELSE IF m.client_session = None THEN Some(Exc("ConnectionError", SessionUnavailableMsg))
  ELSE None

\* lines 206-215: the checks made before the transport is used
call_tool_check(m, name) ==
  IF ~is_connected(m) THEN Some(Exc("ConnectionError", NotConnectedMsg))
  ELSE IF m.client_session = None THEN Some(Exc("ConnectionError", SessionUnavailableMsg))
  ELSE IF ~InSeq(name, tool_names(m))
       THEN Some(Exc("ValueError", NotFoundMsg(name, tool_names(m))))
  ELSE None

Str(text) == [type |-> "str", text |-> text]

\* lines 286: one item of the content list as text
item_text(item) == IF item.is_dict /\ item.has_text THEN item.text ELSE item.repr

\* lines 280-291: the result of call_tool as a string, a sequence of lines
result_text_whole_content(result) ==
  IF result.type = "dict" /\ result.has_content
  THEN Str(<<result.content_repr>>)
  ELSE Str(<<result.repr>>)

result_text(result) ==
  IF result.type = "dict"
  THEN IF result.has_content
       THEN IF result.content_is_list
            THEN Str([i \in 1..Len(result.items) |-> item_text(result.items[i])])
            ELSE Str(<<result.content_repr>>)
       ELSE Str(<<result.repr>>)
  ELSE Str(<<result.repr>>)

\* line 295
ToolErrorText(name, e) == <<"Error executing tool", name, ":">> \o e.msg

\* variant: only connection errors are caught
mcp_tool_wrapper_narrow(name, outcome) ==
  IF outcome.kind = "raise"
  THEN IF outcome.exc.type = "ConnectionError"
       THEN Returned(Str(ToolErrorText(name, outcome.exc)))
       ELSE outcome
  ELSE Returned(result_text(outcome.value))

\* lines 275-295: mcp_tool_wrapper around the outcome of call_tool
mcp_tool_wrapper(name, outcome) ==
  IF outcome.kind = "raise"
  THEN Returned(Str(ToolErrorText(name, outcome.exc)))
  ELSE Returned(result_text(outcome.value))

\* a call made directly ends with the outcome of call_tool, one made through
\* a wrapper with what the wrapper makes of it
FinishCall(t, r, outcome, m) ==
  IF r.op = "wrapper"
  THEN Finish(t, r, mcp_tool_wrapper(r.name, outcome), Some(outcome), m)
  ELSE Finish(t, r, outcome, Some(outcome), m)

ListTools(t) ==
  /\ tasks[t].pc = "idle"
  /\ LET r == Start(t, "list_tools") IN
     IF ~is_connected(mgr)
     THEN Finish(t, r, Raised(Exc("ConnectionError", NotConnectedMsg)), None, mgr)
     ELSE Finish(t, r, Returned(mgr.available_tools), None, mgr)
  /\ UNCHANGED wrappers

GetStrandsTools(t) ==
  /\ tasks[t].pc = "idle"
  /\ LET r == Start(t, "get_strands_tools") IN
     IF ~is_connected(mgr)
     THEN /\ Finish(t, r, Raised(Exc("ConnectionError", NotConnectedMsg)), None, mgr)
          /\ UNCHANGED wrappers
     ELSE /\ Finish(t, r, Returned(tool_names(mgr)), None, mgr)
          /\ wrappers' = tool_names(mgr)

\* variant: the checks of lines 206-215 are not made
CallStart_unchecked(t, r) ==
  Suspend(t, [r EXCEPT !.pc = "t_call",
                       !.calls = <<TCall("call_tool", mgr.client_session, r.name, r.args)>>],
          mgr)

\* call_tool(name, args) up to the await of the transport's call_tool
CallStart(t, r) ==
  LET failure == call_tool_check(mgr, r.name) IN
  IF failure # None
  THEN FinishCall(t, r, Raised(failure[1]), mgr)
  ELSE Suspend(t, [r EXCEPT !.pc = "t_call",
                            !.calls = <<TCall("call_tool", mgr.client_session, r.name, r.args)>>],
               mgr)

CallTool(t, name, args) ==
  /\ tasks[t].pc = "idle"
  /\ name \in CallNames
  /\ args \in ArgSets
  /\ CallStart(t, [Start(t, "call_tool") EXCEPT !.name = name, !.args = args])
  /\ UNCHANGED wrappers

\* a wrapper built by an earlier get_strands_tools is called
WrapperCall(t, i, args) ==
  /\ tasks[t].pc = "idle"
  /\ i \in 1..Len(wrappers)
  /\ args \in ArgSets
  /\ CallStart(t, [Start(t, "wrapper") EXCEPT !.name = wrappers[i], !.args = args])
  /\ UNCHANGED wrappers

\* variant: the transport's failure is swallowed and an empty result returned
CallToolFail_swallowed(t) ==
  /\ tasks[t].pc = "t_call"
  /\ FinishCall(t, tasks[t],
                Returned([type |-> "dict", has_content |-> FALSE, content_is_list |-> FALSE,
                          items |-> <<>>, repr |-> "{}", content_repr |-> ""]), mgr)
  /\ UNCHANGED wrappers

\* the transport's call_tool raised: lines 222-224
CallToolFail(t) ==
  /\ tasks[t].pc = "t_call"
  /\ FinishCall(t, tasks[t], Raised(Exc("ConnectionError", ToolFailedMsg(InvokeError))), mgr)
  /\ UNCHANGED wrappers

\* the transport's call_tool answered: line 221
CallToolResume(t, result) ==
  /\ tasks[t].pc = "t_call"
  /\ result \in ToolResults
  /\ FinishCall(t, tasks[t], Returned(result), mgr)
  /\ UNCHANGED wrappers

(***************************************************************************)
(* Specifications                                                          *)
(***************************************************************************)
Resume(t) ==
  \/ \E o \in {"ok", "raise"} : DisconnectCloseResume(t, o)
  \/ \E o \in {"ok", "raise"} : ConnectCloseResume(t, o)
  \/ \E o \in {"ok", "raise"} : ConnectSpawnResume(t, o)
  \/ \E o \in {"ok", "raise", "timeout"} : ConnectInitResume(t, o)
  \/ ConnectListFail(t)
  \/ \E tools \in Discovery : ConnectListResume(t, tools)
  \/ ConnectSleepResume(t)
  \/ CallToolFail(t)
  \/ \E result \in ToolResults : CallToolResume(t, result)

Call(t, rmax) ==
  \/ \E config \in MCPServerConfig(rmax) : ConnectCall(t, config)
  \/ DisconnectCall(t)
  \/ ListTools(t)
  \/ GetStrandsTools(t)
  \/ \E name \in CallNames, args \in ArgSets : CallTool(t, name, args)
  \/ \E i \in 1..MaxTools, args \in ArgSets : WrapperCall(t, i, args)

\* one caller, long retry loops: connect and disconnect only
NextRetry ==
  \E t \in Tasks :
    \/ CanStartSeq(t) /\ \E config \in MCPServerConfig(MaxRetryLong) : ConnectCall(t, config)
    \/ CanStartSeq(t) /\ DisconnectCall(t)
    \/ \E o \in {"ok", "raise"} : DisconnectCloseResume(t, o)
    \/ \E o \in {"ok", "raise"} : ConnectCloseResume(t, o)
    \/ \E o \in {"ok", "raise"} : ConnectSpawnResume(t, o)
    \/ \E o \in {"ok", "raise", "timeout"} : ConnectInitResume(t, o)
    \/ ConnectListFail(t)
    \/ \E tools \in Discovery : ConnectListResume(t, tools)
    \/ ConnectSleepResume(t)

SpecRetry == Init /\ [][NextRetry]_vars

\* one caller, every call awaited before the next is made
Next ==
  \E t \in Tasks :
    \/ CanStartSeq(t) /\ Call(t, MaxRetry)
    \/ Resume(t)

Spec == Init /\ [][Next]_vars

\* inputs of the concurrent specification: one server, short answers
ConcConfigs == {c \in MCPServerConfig(MaxRetryConc) : c.name = "alpha"}
ConcDiscovery == {s \in Discovery : Len(s) <= 1}

\* two asyncio tasks share the manager and interleave at the awaits
NextConc ==
  \E t \in Tasks :
    \/ CanStartConc(t) /\ \E config \in ConcConfigs : ConnectCall(t, config)
    \/ CanStartConc(t) /\ DisconnectCall(t)
    \/ CanStartConc(t) /\ ListTools(t)
    \/ \E o \in {"ok", "raise"} : DisconnectCloseResume(t, o)
    \/ \E o \in {"ok", "raise"} : ConnectCloseResume(t, o)
    \/ \E o \in {"ok", "raise"} : ConnectSpawnResume(t, o)
    \/ \E o \in {"ok", "raise", "timeout"} : ConnectInitResume(t, o)
    \/ ConnectListFail(t)
    \/ \E tools \in ConcDiscovery : ConnectListResume(t, tools)
    \/ ConnectSleepResume(t)

SpecConc == Init /\ [][NextConc]_vars

TypeOK ==
  /\ mgr.client_session = None \/ Len(mgr.client_session) = 1
  /\ \A t \in Tasks : tasks[t].pc \in
       {"idle", "d_close", "c_close", "c_spawn", "c_init", "c_list", "c_sleep", "t_call"}
  /\ turn.pc \in {"idle", "s_starting", "e_ending", "p_new", "p_empty", "p_status",
                  "p_stream", "p_complete", "p_error"}
  /\ sess.session_active \in BOOLEAN
  /\ sess.agent = None \/ Len(sess.agent) = 1
  /\ Len(turn.raws) <= MaxEvents

(***************************************************************************)
(* SessionManager (session.py 19-228)                                      *)
(*                                                                         *)
(* start_session and end_session await nothing but each other, so each     *)
(* runs without interruption; the model takes one step for the call (the   *)
(* guard at its head) and one for its body.  process_input is an async     *)
(* generator: calling it runs no code, and each later step is one          *)
(* __anext__ of the consumer, which runs the body up to its next yield.    *)
(* A session call is made when no manager call and no other session call   *)
(* is in progress, and a turn is consumed to its end.                      *)
(***************************************************************************)
Inputs == {"", "   ", "hi"}

\* str.strip() of the user's input
strip_input_identity(text) == text

strip_input(text) == IF text = "   " THEN "" ELSE text

SessionNotConnectedMsg == <<"MCP client is not connected. Connect to a server first.">>
SessionNotActiveMsg == <<"Session is not active. Call start_session() first.">>
StartFailedMsg(e) == <<"Failed to start session:">> \o e.msg

\* what the constructor of the engine, its stream and an event's attributes raise
AgentError == Exc("Exception", <<"agent init failed">>)
EngineError == Exc("Exception", <<"agent failed">>)
AttributeError == Exc("Exception", <<"attribute access failed">>)

\* the engine handle built at session.py 55-60
Agent(tools) == [model |-> "default-model", tools |-> tools]

\* config.py StreamEvent.  data is a string (text, a token sequence) or, for
\* tool_use, a dict of tool_name, arguments and result
NoTool == [tool_name |-> "", arguments |-> "", result |-> None]
StreamEvent(event_type, text) ==
  [event_type |-> event_type, text |-> text, tool |-> NoTool]
ToolUseEvent(tool_name, arguments, result) ==
  [event_type |-> "tool_use", text |-> <<>>,
   tool |-> [tool_name |-> tool_name, arguments |-> arguments, result |-> result]]

EmptyInputEvent == StreamEvent("error", <<"Empty input provided">>)
StatusEvent == StreamEvent("status", <<"Processing your request...">>)
CompleteEvent == StreamEvent("complete", <<"Response complete">>)
ProcessingErrorEvent(e) == StreamEvent("error", <<"Error processing input:">> \o e.msg)

\* a raw event of the engine: the attributes it has (None: it has not the
\* attribute), its str(), and whether reading its attributes raises
RawEvent(type, text, tool_name, arguments, result, message, repr, broken) ==
  [type |-> type, text |-> text, tool_name |-> tool_name, arguments |-> arguments,
   result |-> result, message |-> message, repr |-> repr, broken |-> broken]

RawEvents ==
  {RawEvent(Some("text"), Some("Hello"), None, None, None, None, "<text>", FALSE),
   RawEvent(Some("text"), None, None, None, None, None, "<text>", FALSE),
   RawEvent(Some("tool_use"), None, Some("search"), Some("{q:x}"), Some("found"), None, "<tool>", FALSE),
   RawEvent(Some("tool_use"), None, None, None, None, None, "<tool>", FALSE),
   RawEvent(Some("error"), None, None, None, None, Some("boom"), "<error>", FALSE),
   RawEvent(Some("error"), None, None, None, None, None, "<error>", FALSE),
   RawEvent(Some("metric"), None, None, None, None, None, "<metric>", FALSE),
   RawEvent(None, None, None, None, None, None, "{}", FALSE),
   RawEvent(Some("text"), Some("Hello"), None, None, None, None, "<text>", TRUE)}

\* getattr(obj, name, default)
getattr(attr, default) == IF attr = None THEN default ELSE attr[1]

\* session.py 137-164: the body of the try
convert_by_type_untyped(e) == StreamEvent("text", <<e.repr>>)

convert_by_type(e) ==
  IF e.type = Some("text")
  THEN StreamEvent("text", <<getattr(e.text, e.repr)>>)
  ELSE IF e.type = Some("tool_use")
  THEN ToolUseEvent(getattr(e.tool_name, "unknown"), getattr(e.arguments, "{}"), e.result)
  ELSE IF e.type = Some("error")
  THEN StreamEvent("error", <<getattr(e.message, e.repr)>>)
  ELSE StreamEvent("text", <<e.repr>>)

\* session.py 125-171: the try and its handler (lines 166-171)
convert_strands_event_unguarded(e) == convert_by_type(e)

convert_strands_event(e) ==
  IF e.broken
  THEN StreamEvent("error", <<"Event conversion error:">> \o AttributeError.msg)
  ELSE convert_by_type(e)

\* a session call may be made
CanCallSession == turn.pc = "idle" /\ \A u \in Tasks : tasks[u].pc = "idle"

\* a manager call may be made by the caller of the session
CanStartSess(t) == CanStartSeq(t) /\ turn.pc = "idle"

ClearDone == [NoDone EXCEPT !.last_disconnect = done.last_disconnect]

SessionCall(op, text) ==
  [NoTurn EXCEPT !.op = op, !.input = text, !.pre = Some(sess)]

\* the session call r returns or raises, leaving the session s
SFinish(r, res, s, built, fault) ==
  /\ sess' = s
  /\ turn' = NoTurn
  /\ sdone' = [op |-> r.op, result |-> res, input |-> r.input, out |-> r.out,
               raws |-> r.raws, engine_calls |-> r.engine_calls, stream |-> r.stream,
               engine_built |-> built, fault |-> fault,
               pre |-> r.pre, post |-> Some(s)]
  /\ done' = ClearDone
  /\ UNCHANGED <<mgr, tasks, wrappers, hvars>>

\* the session call r goes on (or its generator is suspended at a yield)
SSuspend(r) ==
  /\ turn' = r
  /\ sdone' = NoSDone
  /\ done' = ClearDone
  /\ UNCHANGED <<mgr, tasks, wrappers, sess, hvars>>

(***************************************************************************)
(* end_session (session.py 173-203)                                        *)
(***************************************************************************)
\* session.py 183-194
cleanup(s) ==
  [s EXCEPT !.agent = None, !.tools = <<>>, !.streaming_handler = None,
            !.session_active = FALSE]

\* session.py 197-203, after a step of 183-194 raised
forced_cleanup_keeps_active(s) ==
  [s EXCEPT !.agent = None, !.tools = <<>>, !.streaming_handler = None]

forced_cleanup(s) ==
  [s EXCEPT !.agent = None, !.tools = <<>>, !.streaming_handler = None,
            !.session_active = FALSE]

\* the whole of end_session on the session s; outcome "raise": the test of
\* the engine handle at line 183 raises
end_session(s, outcome) ==
  IF ~s.session_active THEN s
  ELSE IF outcome = "raise" /\ s.agent # None THEN forced_cleanup(s)
  ELSE cleanup(s)

EndSessionCall ==
  /\ CanCallSession
  /\ LET r == SessionCall("end_session", "") IN
     IF ~sess.session_active
     THEN SFinish(r, Returned(None), end_session(sess, "ok"), 0, FALSE)
     ELSE SSuspend([r EXCEPT !.pc = "e_ending"])

EndSessionRun(outcome) ==
  /\ turn.pc = "e_ending"
  /\ outcome = "raise" => sess.agent # None
  /\ SFinish(turn, Returned(None), end_session(sess, outcome), 0, outcome = "raise")

(***************************************************************************)
(* start_session (session.py 37-71)                                        *)
(***************************************************************************)
\* lines 45-46
start_precheck_skipped(m) == None

start_precheck(m) ==
  IF ~is_connected(m) THEN Some(Exc("RuntimeError", SessionNotConnectedMsg)) ELSE None

\* line 50: get_strands_tools, one wrapper per cached tool
load_tools(m) ==
  IF ~is_connected(m)
  THEN Raised(Exc("ConnectionError", NotConnectedMsg))
  ELSE Returned(tool_names(m))

\* lines 55-65
session_started_inactive(s, tools) ==
  [s EXCEPT !.tools = tools, !.agent = Some(Agent(tools)),
            !.streaming_handler = Some(StreamingHandlerInit)]

session_started(s, tools) ==
  [s EXCEPT !.tools = tools, !.agent = Some(Agent(tools)),
            !.streaming_handler = Some(StreamingHandlerInit),
            !.session_active = TRUE]

\* lines 68-71: the handler of a failed start, s the session as the failure left it
StartFailed(r, e, s, built) ==
  SFinish(r, Raised(Exc("RuntimeError", StartFailedMsg(e))), end_session(s, "ok"), built, FALSE)

StartSessionCall_restarts ==
  /\ CanCallSession
  /\ SSuspend([SessionCall("start_session", "") EXCEPT !.pc = "s_starting"])

\* lines 39-41, then the body
StartSessionCall ==
  /\ CanCallSession
  /\ LET r == SessionCall("start_session", "") IN
     IF sess.session_active
     THEN SFinish(r, Returned(None), sess, 0, FALSE)
     ELSE SSuspend([r EXCEPT !.pc = "s_starting"])

\* outcome: what the constructor of the engine does
StartSessionRun(outcome) ==
  /\ turn.pc = "s_starting"
  /\ LET check == start_precheck(mgr)
         loaded == load_tools(mgr) IN
     IF check # None THEN StartFailed(turn, check[1], sess, 0)
     ELSE IF loaded.kind = "raise" THEN StartFailed(turn, loaded.exc, sess, 0)
     ELSE IF outcome = "raise"
     THEN StartFailed(turn, AgentError, [sess EXCEPT !.tools = loaded.value], 1)
     ELSE SFinish(turn, Returned(None), session_started(sess, loaded.value), 1, FALSE)

(***************************************************************************)
(* process_input (session.py 73-123)                                       *)
(***************************************************************************)
Yield(r, pc, event) == SSuspend([r EXCEPT !.pc = pc, !.out = Append(r.out, event)])

ProcessInputCall(text) ==
  /\ CanCallSession
  /\ SSuspend([SessionCall("process_input", text) EXCEPT !.pc = "p_new"])

\* lines 86-103: the first __anext__
ProcessInputFirst_unchecked ==
  /\ turn.pc = "p_new"
  /\ IF strip_input(turn.input) = ""
     THEN Yield(turn, "p_empty", EmptyInputEvent)
     ELSE Yield(turn, "p_status", StatusEvent)

ProcessInputFirst ==
  /\ turn.pc = "p_new"
  /\ IF ~sess.session_active \/ sess.agent = None
     THEN SFinish(turn, Raised(Exc("RuntimeError", SessionNotActiveMsg)), sess, 0, FALSE)
     ELSE IF strip_input(turn.input) = ""
     THEN Yield(turn, "p_empty", EmptyInputEvent)
     ELSE Yield(turn, "p_status", StatusEvent)

\* the generator is resumed after the Status event or after a converted
\* event; resumed after Status it first calls stream_async (line 106)
Streaming(r) ==
  IF r.pc = "p_status" THEN [r EXCEPT !.engine_calls = r.engine_calls + 1] ELSE r

\* lines 106-110: the engine produces the raw event e
ProcessInputNext_filtered(e) ==
  /\ turn.pc \in {"p_status", "p_stream"}
  /\ Len(turn.raws) < MaxEvents
  /\ LET r == [Streaming(turn) EXCEPT !.raws = Append(turn.raws, e)] IN
     IF convert_strands_event(e).event_type = "error"
     THEN SSuspend([r EXCEPT !.pc = "p_stream"])
     ELSE Yield(r, "p_stream", convert_strands_event(e))

ProcessInputNext(e) ==
  /\ turn.pc \in {"p_status", "p_stream"}
  /\ Len(turn.raws) < MaxEvents
  /\ LET r == [Streaming(turn) EXCEPT !.raws = Append(turn.raws, e)] IN
     Yield(r, "p_stream", convert_strands_event(e))

\* lines 112-116: the engine's stream ends
ProcessInputEnd ==
  /\ turn.pc \in {"p_status", "p_stream"}
  /\ Yield([Streaming(turn) EXCEPT !.stream = "ended"], "p_complete", CompleteEvent)

\* lines 118-123: stream_async or the engine's stream raises
ProcessInputFail_propagated ==
  /\ turn.pc \in {"p_status", "p_stream"}
  /\ SFinish([Streaming(turn) EXCEPT !.stream = "raised"], Raised(EngineError), sess, 0, FALSE)

ProcessInputFail ==
  /\ turn.pc \in {"p_status", "p_stream"}
  /\ Yield([Streaming(turn) EXCEPT !.stream = "raised"], "p_error",
           ProcessingErrorEvent(EngineError))

\* lines 94, 116, 123: the body ends, the consumer's loop is over
ProcessInputReturn_ends_session ==
  /\ turn.pc \in {"p_empty", "p_complete", "p_error"}
  /\ SFinish(turn, Returned(None), cleanup(sess), 0, FALSE)

ProcessInputReturn ==
  /\ turn.pc \in {"p_empty", "p_complete", "p_error"}
  /\ SFinish(turn, Returned(None), sess, 0, FALSE)

\* lines 205-212 and 214-228
is_active(s) == s.session_active
get_session_info(s, m) ==
  [active |-> s.session_active, tools_loaded |-> Len(s.tools),
   mcp_connected |-> is_connected(m)]

\* the state of the session's life cycle: Starting and Ending are the
\* bodies of start_session and end_session past their guards
SessionState ==
  IF turn.pc = "s_starting" THEN "Starting"
  ELSE IF turn.pc = "e_ending" THEN "Ending"
  ELSE IF sess.session_active THEN "Active"
  ELSE "Idle"

\* inputs of the session specification: one server, one attempt, short answers
SessConfigs == {c \in MCPServerConfig(MinRetryAttempts) : c.name = "alpha"}
SessDiscovery == {s \in Discovery : Len(s) <= 1}

\* one caller drives the manager and the session, one call at a time
NextSession ==
  \/ \E t \in Tasks :
       \/ CanStartSess(t) /\ \E config \in SessConfigs : ConnectCall(t, config)
       \/ CanStartSess(t) /\ DisconnectCall(t)
       \/ \E o \in {"ok", "raise"} : DisconnectCloseResume(t, o)
       \/ \E o \in {"ok", "raise"} : ConnectCloseResume(t, o)
       \/ \E o \in {"ok", "raise"} : ConnectSpawnResume(t, o)
       \/ \E o \in {"ok", "raise", "timeout"} : ConnectInitResume(t, o)
       \/ ConnectListFail(t)
       \/ \E tools \in SessDiscovery : ConnectListResume(t, tools)
  \/ StartSessionCall /\ UNCHANGED cli
  \/ \E o \in {"ok", "raise"} : StartSessionRun(o) /\ UNCHANGED cli
  \/ EndSessionCall /\ UNCHANGED cli
  \/ \E o \in {"ok", "raise"} : EndSessionRun(o) /\ UNCHANGED cli
  \/ \E text \in Inputs : ProcessInputCall(text) /\ UNCHANGED cli
  \/ ProcessInputFirst /\ UNCHANGED cli
  \/ \E e \in RawEvents : ProcessInputNext(e) /\ UNCHANGED cli
  \/ ProcessInputEnd /\ UNCHANGED cli
  \/ ProcessInputFail /\ UNCHANGED cli
  \/ ProcessInputReturn /\ UNCHANGED cli

SpecSession == Init /\ [][NextSession]_vars

\* a tool of the session's list (the wrappers start_session took from
\* get_strands_tools, session.py 50) is called, by the engine or by anyone
\* holding the list: mcp_tool_wrapper (mcp.py 268-295) on the manager as it is
SessionToolCall(t, i, args) ==
  /\ CanStartSess(t)
  /\ i \in 1..Len(sess.tools)
  /\ args \in ArgSets
  /\ CallStart(t, [Start(t, "wrapper") EXCEPT !.name = sess.tools[i], !.args = args])
  /\ UNCHANGED wrappers

\* the caller of the session, and the tools of the session called at any time
NextStale ==
  \/ NextSession
  \/ \E t \in Tasks, i \in 1..MaxTools, args \in ArgSets : SessionToolCall(t, i, args)
  \/ \E t \in Tasks : CallToolFail(t)
  \/ \E t \in Tasks, result \in ToolResults : CallToolResume(t, result)

SpecStale == Init /\ [][NextStale]_vars

(***************************************************************************)
(* Properties of connect's retry loop                                      *)
(***************************************************************************)
ConnectRaised == done.op = "connect" /\ done.result.kind = "raise"

RECURSIVE BackoffSum(_)
\* sum of min(2^i, 10) for i in 0..n
BackoffSum(n) == IF n < 0 THEN 0 ELSE Min(2 ^ n, 10) + BackoffSum(n - 1)

\* C1: a connect with retry_attempts = N whose attempts all fail has made
\* exactly N attempts and has slept min(2^i, 10) after failed attempt i for
\* i in 0..N-2 only, in that order, so its total backoff is the sum of these;
\* a connect is never asleep after its last attempt.
C1_RetryBackoff ==
  /\ ConnectRaised =>
       LET N == done.config[1].retry_attempts IN
         /\ done.attempts = N
         /\ done.slept = [i \in 1..(N - 1) |-> Min(2 ^ (i - 1), 10)]
         /\ SumSeq(done.slept) = BackoffSum(N - 2)
  /\ \A t \in Tasks :
       tasks[t].pc = "c_sleep" => tasks[t].attempt < tasks[t].config[1].retry_attempts - 1

\* a connect with six attempts has failed; its last sleep was the capped one
C1_Witness ==
  /\ ConnectRaised
  /\ done.config[1].retry_attempts = 6
  /\ done.slept = <<1, 2, 4, 8, 10>>

\* C2 as stated: after a connect whose attempts all failed, the raised
\* ConnectionError names the attempt count and the last cause, the status is
\* not connected and carries the raised error's message, and is_connected()
\* is false.
C2_FailedCarriesRaisedMessage ==
  ConnectRaised =>
    LET config == done.config[1]
        e == done.result.exc
        post == done.post[1]
    IN /\ e.type = "ConnectionError"
       /\ IsInfix(<<"after", ToString(config.retry_attempts), "attempts:">>, e.msg)
       /\ IsInfix(done.last_error[1].msg, e.msg)
       /\ ~post.connection_status.connected
       /\ post.connection_status.error_message = Some(e.msg)
       /\ ~is_connected(post)

\* C2 amended: after a connect whose attempts all failed, the raised
\* ConnectionError names the server, the attempt count and the last cause;
\* the status names the server, is not connected and carries the message of
\* the last cause alone (not the raised error's message); is_connected() is
\* false.
C2_FailedCarriesCause ==
  ConnectRaised =>
    LET config == done.config[1]
        e == done.result.exc
        post == done.post[1]
    IN /\ e.type = "ConnectionError"
       /\ IsInfix(<<"after", ToString(config.retry_attempts), "attempts:">>, e.msg)
       /\ IsInfix(done.last_error[1].msg, e.msg)
       /\ ~post.connection_status.connected
       /\ post.connection_status.server_name = config.name
       /\ post.connection_status.error_message = Some(done.last_error[1].msg)
       /\ post.connection_status.error_message # Some(e.msg)
       /\ ~is_connected(post)

\* a connect with three attempts has failed, the last one on a handshake timeout
C2_Witness ==
  /\ ConnectRaised
  /\ done.config[1].retry_attempts = 3
  /\ done.last_error[1].msg = TimeoutMsg(done.config[1])

ConnectReturned == done.op = "connect" /\ done.result.kind = "return"

\* C36: a connect whose attempts 0..k-1 failed and whose attempt k succeeded
\* (k < retry_attempts) has made exactly k+1 attempts and has slept only
\* after each of its k failures; it returns True with the manager connected,
\* and the failures leave no error message in the status.
C36_StopsAtFirstSuccess ==
  ConnectReturned =>
    LET k == done.failures IN
    /\ k < done.config[1].retry_attempts
    /\ done.attempts = k + 1
    /\ done.slept = [i \in 1..k |-> Min(2 ^ (i - 1), 10)]
    /\ (k = 0) = (done.last_error = None)
    /\ done.result = Returned(Some(TRUE))
    /\ is_connected(mgr)
    /\ mgr.connection_status.connected
    /\ mgr.connection_status.server_name = done.config[1].name
    /\ mgr.connection_status.error_message = None
    /\ \A t \in Tasks : tasks[t].pc = "idle"

\* the fourth attempt of a connect with six attempts has succeeded
C36_Witness ==
  /\ ConnectReturned
  /\ done.config[1].retry_attempts = 6
  /\ done.failures = 3
  /\ done.attempts = 4
  /\ done.slept = <<1, 2, 4>>
  /\ done.last_error # None

\* the ConnectionError a handshake timeout is turned into
TimeoutError(config) == Exc("ConnectionError", TimeoutMsg(config))

\* C37: a handshake that exceeds the timeout does not leave connect as a
\* TimeoutError: it becomes a ConnectionError saying "Connection timeout
\* after ... seconds", counts as one failed attempt, is followed by the
\* backoff sleep and the next attempt when attempts remain, and when it is
\* the last failure its message is the cause the Failed status records.
C37_TimeoutIsAFailedAttempt ==
  /\ \A t \in Tasks :
       (tasks[t].pc \notin {"idle", "c_init"} /\ tasks[t].handshake = "timeout") =>
         /\ tasks[t].pc = "c_sleep"
         /\ tasks[t].last_error = Some(TimeoutError(tasks[t].config[1]))
         /\ tasks[t].failures = tasks[t].attempts
         /\ Len(tasks[t].slept) = tasks[t].failures
         /\ tasks[t].slept[tasks[t].failures] = Min(2 ^ tasks[t].attempt, 10)
         /\ tasks[t].attempt + 1 < tasks[t].config[1].retry_attempts
  /\ (done.op = "connect" /\ done.handshake = "timeout") =>
       LET config == done.config[1] IN
       /\ done.result = Raised(Exc("ConnectionError", FailedMsg(config, TimeoutError(config))))
       /\ done.last_error = Some(TimeoutError(config))
       /\ done.attempts = config.retry_attempts
       /\ done.failures = config.retry_attempts
       /\ ~mgr.connection_status.connected
       /\ mgr.connection_status.error_message = Some(TimeoutMsg(config))

\* the second and last attempt of a connect has timed out
C37_Witness ==
  /\ done.op = "connect"
  /\ done.handshake = "timeout"
  /\ done.config[1].retry_attempts = 2
  /\ done.failures = 2
  /\ done.slept = <<1>>
  /\ mgr.connection_status.error_message = Some(TimeoutMsg(done.config[1]))

ConnectCalled(t) == tasks[t].pc = "idle" /\ tasks'[t].op = "connect"

FirstAttemptStarts(t) == tasks[t].attempts = 0 /\ tasks'[t].attempts = 1

\* C3: a connect called while the manager is connected starts no attempt
\* before it has closed the prior session; when its first attempt starts the
\* prior session has been closed, the session handle is null, the status is
\* reset and the cache is empty, so no connection is held at that point.
C3_ReconnectDisconnectsFirst ==
  [][\A t \in Tasks :
       /\ (ConnectCalled(t) /\ is_connected(mgr)) =>
            /\ tasks'[t].attempts = 0
            /\ tasks'[t].calls = <<TCall("close", mgr.client_session, "", "")>>
       /\ FirstAttemptStarts(t) =>
            /\ ~is_connected(mgr')
            /\ tasks[t].pc = "idle" => ~is_connected(mgr)
            /\ tasks[t].pc # "idle" =>
                 /\ tasks[t].calls = <<TCall("close", mgr.client_session, "", "")>>
                 /\ mgr' = MgrInit]_vars

\* the first attempt of a reconnect is under way, the prior session closed
C3_Witness ==
  /\ tasks[SeqTask].pc = "c_spawn"
  /\ tasks[SeqTask].attempts = 1
  /\ Len(tasks[SeqTask].calls) = 1
  /\ tasks[SeqTask].calls[1].prim = "close"
  /\ mgr = MgrInit

(***************************************************************************)
(* Properties of call_tool, list_tools, get_strands_tools                  *)
(***************************************************************************)
\* C4: call_tool on a connected manager with a name that is not in the
\* cached list raises the ValueError naming the tool and makes no transport
\* call.
C4_UnknownToolRejectedLocally ==
  (/\ done.op = "call_tool"
   /\ is_connected(done.pre[1])
   /\ ~InSeq(done.name, tool_names(done.pre[1]))) =>
    /\ done.result.kind = "raise"
    /\ done.result.exc.type = "ValueError"
    /\ IsInfix(<<"Tool", done.name, "not found. Available tools:">>, done.result.exc.msg)
    /\ done.calls = <<>>

\* call_tool("write") has ended on a manager whose cache holds other tools
C4_Witness ==
  /\ done.op = "call_tool"
  /\ done.name = "write"
  /\ is_connected(done.pre[1])
  /\ Len(done.pre[1].available_tools) = 2
  /\ done.result.kind = "raise"

\* the three states the spec calls not Connected: the status flag is down
\* (initial, disconnected, Failed) or there is no session handle
NotConnectedState(m) == ~m.connection_status.connected \/ m.client_session = None

\* C5: on a manager that is not connected, list_tools, call_tool and
\* get_strands_tools raise the "not connected" ConnectionError, make no
\* transport call and leave the manager and the wrappers as they were.
C5_NotConnectedRejected ==
  (/\ done.op \in {"list_tools", "call_tool", "get_strands_tools"}
   /\ NotConnectedState(done.pre[1])) =>
    /\ done.result = Raised(Exc("ConnectionError", NotConnectedMsg))
    /\ done.calls = <<>>
    /\ done.post = done.pre
    /\ mgr = done.pre[1]

\* one of the three has ended on a manager left Failed by a connect
C5_Witness ==
  /\ done.op \in {"list_tools", "call_tool", "get_strands_tools"}
  /\ NotConnectedState(done.pre[1])
  /\ done.pre[1].connection_status.error_message # None
  /\ done.pre[1].client_session # None

(***************************************************************************)
(* Properties of disconnect                                                *)
(***************************************************************************)
\* C6: whatever state disconnect is called in, it returns without raising
\* and leaves the manager disconnected: is_connected() false, no session,
\* no process, no connected server, a status with an empty server name, no
\* error, no time and no tools, and an empty cache.
C6_DisconnectResets ==
  done.op = "disconnect" =>
    LET post == done.post[1] IN
      /\ done.result = Returned(None)
      /\ ~is_connected(post)
      /\ post.client_session = None
      /\ post.server_process = None
      /\ post.connected_server = None
      /\ post.connection_status.server_name = ""
      /\ ~post.connection_status.connected
      /\ post.connection_status.error_message = None
      /\ post.connection_status.connection_time = None
      /\ post.connection_status.available_tools = <<>>
      /\ post.available_tools = <<>>
      /\ mgr = post

\* a disconnect has ended that found a connection with a non-empty cache
C6_Witness ==
  /\ done.op = "disconnect"
  /\ is_connected(done.pre[1])
  /\ done.pre[1].available_tools # <<>>

\* C7: a disconnect that follows a disconnect leaves the manager exactly as
\* it found it and closes no session and terminates no process.
C7_DisconnectIdempotent ==
  (done.op = "disconnect" /\ done.after_disconnect) =>
    /\ done.post = done.pre
    /\ done.calls = <<>>

\* a disconnect has ended right after another disconnect
C7_Witness ==
  /\ done.op = "disconnect"
  /\ done.after_disconnect
  /\ done.result = Returned(None)

(***************************************************************************)
(* Concurrent callers                                                      *)
(***************************************************************************)
InConnect(t) == tasks[t].op = "connect" /\ tasks[t].pc # "idle"

\* C8: connect calls on one manager are serialized: while one connect is
\* suspended in its retry loop no other connect is inside connect.
C8_ConnectSerialized ==
  \A t, u \in Tasks : (t # u /\ InConnect(t)) => ~InConnect(u)

\* C9: a disconnect interleaved with connects, or run after a failed
\* connect, ends without raising whatever status and session handle it
\* found, and when it ends the manager is disconnected: no session, status
\* reset, cache empty.
C9_DisconnectSafeAroundFailedConnect ==
  done.op = "disconnect" =>
    /\ done.result.kind = "return"
    /\ mgr.client_session = None
    /\ ~is_connected(mgr)
    /\ mgr.connection_status = ConnectionStatus("", FALSE, None, None, <<>>)
    /\ mgr.connected_server = None
    /\ mgr.available_tools = <<>>

\* a disconnect has ended while a connect that has already failed an attempt
\* is suspended, and it had found that connect's session handle
C9_Witness ==
  /\ done.op = "disconnect"
  /\ done.calls # <<>>
  /\ \E t \in Tasks : /\ InConnect(t)
                      /\ tasks[t].last_error # None
                      /\ done.task # t

(***************************************************************************)
(* Properties of the tool wrapper                                          *)
(***************************************************************************)
\* C10: a call through a tool wrapper always returns a string, whatever
\* call_tool did; when call_tool raised, the string is
\* "Error executing tool '<name>': <message>".
C10_WrapperNeverRaises ==
  done.op = "wrapper" =>
    /\ done.result.kind = "return"
    /\ done.result.value.type = "str"
    /\ done.inner[1].kind = "raise" =>
         done.result.value.text =
           <<"Error executing tool", done.name, ":">> \o done.inner[1].exc.msg

\* a wrapper has been called after a reconnect dropped its tool from the cache
C10_Witness ==
  /\ done.op = "wrapper"
  /\ done.inner[1].kind = "raise"
  /\ done.inner[1].exc.type = "ValueError"

(***************************************************************************)
(* Properties of call_tool on a connected manager                          *)
(***************************************************************************)
\* C11: call_tool on a connected manager with a name of the cached list
\* calls the transport's call_tool exactly once, on the manager's session
\* and with the name and arguments given; it ends either with the
\* transport's result or, when the transport failed, with a ConnectionError
\* "Tool execution failed: <cause>"; the manager is left as it was found.
C11_InvokeOnceAndReraise ==
  (/\ done.op = "call_tool"
   /\ done.pre[1].connection_status.connected
   /\ done.pre[1].client_session # None
   /\ InSeq(done.name, tool_names(done.pre[1]))) =>
    /\ done.calls = <<TCall("call_tool", done.pre[1].client_session, done.name, done.args)>>
    /\ \/ /\ done.result.kind = "return"
          /\ done.result.value \in ToolResults
       \/ /\ done.result.kind = "raise"
          /\ done.result.exc.type = "ConnectionError"
          /\ done.result.exc.msg = <<"Tool execution failed:">> \o InvokeError.msg
    /\ done.post = done.pre
    /\ mgr = done.pre[1]

\* a call_tool of a cached name has ended in the wrapped transport failure
C11_Witness ==
  /\ done.op = "call_tool"
  /\ InSeq(done.name, tool_names(done.pre[1]))
  /\ Len(done.calls) = 1
  /\ done.result.kind = "raise"
  /\ done.result.exc.type = "ConnectionError"

\* a call made through a wrapper has ended and call_tool had returned
WrapperSucceeded ==
  /\ done.op = "wrapper"
  /\ done.inner # None
  /\ done.inner[1].kind = "return"

\* str() of each item of a content list
Stringified(items) == [i \in 1..Len(items) |-> items[i].repr]

\* C35 as stated: on success the wrapper returns, if the result carries a
\* "content" field that is a list, the stringified items joined with
\* newlines, else the stringified whole result.
C35_ResultAsString ==
  WrapperSucceeded =>
    LET result == done.inner[1].value IN
    done.result =
      Returned(IF result.has_content /\ result.content_is_list
               THEN Str(Stringified(result.items))
               ELSE Str(<<result.repr>>))

\* C35 amended: on success the wrapper returns a string: if the result
\* carries a "content" field that is a list, its items joined with newlines,
\* each item a dict with a "text" key rendered as that text and any other
\* item stringified; if it carries a "content" field that is not a list,
\* the stringified content; else the stringified whole result.
C35_ResultAsText ==
  WrapperSucceeded =>
    LET result == done.inner[1].value
        line(item) == IF item.is_dict /\ item.has_text THEN item.text ELSE item.repr IN
    /\ done.result.kind = "return"
    /\ done.result.value.type = "str"
    /\ (result.has_content /\ result.content_is_list) =>
         /\ Len(done.result.value.text) = Len(result.items)
         /\ \A i \in 1..Len(result.items) :
              done.result.value.text[i] = line(result.items[i])
    /\ (result.has_content /\ ~result.content_is_list) =>
         done.result.value.text = <<result.content_repr>>
    /\ ~result.has_content => done.result.value.text = <<result.repr>>

\* a wrapper has rendered a list of a text item and an item without text
C35_Witness ==
  /\ WrapperSucceeded
  /\ done.inner[1].value.content_is_list
  /\ Len(done.inner[1].value.items) = 2
  /\ done.inner[1].value.items[1].has_text
  /\ ~done.inner[1].value.items[2].is_dict
  /\ done.result = Returned(Str(<<"hello", "raw">>))

(***************************************************************************)
(* Properties of the session's life cycle                                  *)
(***************************************************************************)
SessionSteps ==
  {<<"Idle", "Starting">>, <<"Starting", "Active">>, <<"Starting", "Idle">>,
   <<"Active", "Ending">>, <<"Ending", "Idle">>}

\* C12: over any sequence of start_session, process_input and end_session
\* calls the session state only steps Idle -> Starting -> Active -> Ending
\* -> Idle; the one other step is Starting -> Idle, taken exactly when
\* start_session raises.
C12_SessionStateMachine ==
  [][/\ SessionState' # SessionState => <<SessionState, SessionState'>> \in SessionSteps
     /\ (SessionState = "Starting" /\ SessionState' = "Idle") =>
          sdone'.result.kind = "raise"
     /\ (SessionState = "Starting" /\ SessionState' = "Active") =>
          sdone'.result.kind = "return"]_vars

C12_Witness ==
  /\ sdone.op = "end_session"
  /\ sdone.pre[1].session_active
  /\ SessionState = "Idle"

\* C13 as stated: start_session called while the manager is not connected
\* raises a RuntimeError saying "not connected", builds no engine and leaves
\* the session not active.
C13_NotConnectedStartFails ==
  (sdone.op = "start_session" /\ NotConnectedState(mgr)) =>
    /\ sdone.result.kind = "raise"
    /\ sdone.result.exc.type = "RuntimeError"
    /\ IsInfix(SessionNotConnectedMsg, sdone.result.exc.msg)
    /\ sdone.engine_built = 0
    /\ ~sdone.post[1].session_active

\* C13 amended: start_session called on a session that is not active while
\* the manager is not connected raises RuntimeError "Failed to start
\* session: MCP client is not connected. ...", builds no engine and leaves
\* the session as it was, not active.
C13_IdleNotConnectedStartFails ==
  (/\ sdone.op = "start_session"
   /\ ~sdone.pre[1].session_active
   /\ NotConnectedState(mgr)) =>
    /\ sdone.result.kind = "raise"
    /\ sdone.result.exc.type = "RuntimeError"
    /\ sdone.result.exc.msg = <<"Failed to start session:">> \o SessionNotConnectedMsg
    /\ sdone.engine_built = 0
    /\ sdone.post = sdone.pre
    /\ ~sess.session_active
    /\ sess.agent = None

C13_Witness ==
  /\ sdone.op = "start_session"
  /\ ~sdone.pre[1].session_active
  /\ NotConnectedState(mgr)
  /\ sdone.result.kind = "raise"

\* C14: a start_session whose engine construction raises ends with a
\* RuntimeError, the session not active, the engine handle None and the
\* tool list empty, whatever tools had been loaded.
C14_FailedStartClearsTools ==
  (sdone.op = "start_session" /\ sdone.engine_built = 1 /\ sdone.result.kind = "raise") =>
    /\ sdone.result.exc.type = "RuntimeError"
    /\ ~sess.session_active
    /\ sess.agent = None
    /\ sess.tools = <<>>
    /\ get_session_info(sess, mgr).tools_loaded = 0

(***************************************************************************)
(* Properties of a turn                                                    *)
(***************************************************************************)
\* a turn on an active session has come to its end
TurnDone == sdone.op = "process_input" /\ sdone.pre[1].session_active

BlankInputs == {"", "   "}

\* the images of the raw events of the turn, in the engine's order
Normalized(raws) == [i \in 1..Len(raws) |-> convert_strands_event(raws[i])]

EventTypes(out) == {out[i].event_type : i \in 1..Len(out)}

\* C15: on an active session, process_input with empty or whitespace-only
\* text yields exactly one event, the error "Empty input provided", no
\* status and no complete event, and never calls the engine.
C15_EmptyInputOneError ==
  (TurnDone /\ sdone.input \in BlankInputs) =>
    /\ Len(sdone.out) = 1
    /\ sdone.out[1].event_type = "error"
    /\ sdone.out[1].text = <<"Empty input provided">>
    /\ EventTypes(sdone.out) \cap {"status", "complete"} = {}
    /\ sdone.engine_calls = 0
    /\ sdone.raws = <<>>
    /\ sdone.result.kind = "return"

C15_Witness == TurnDone /\ sdone.input = "   " /\ Len(sdone.out) = 1

\* C16: on an active session, process_input with non-empty text whose
\* engine stream ends without raising yields one status event first, then
\* the image of each raw event in the engine's order, one per raw event,
\* then one complete event last.
C16_NormalTurnOrder ==
  (TurnDone /\ sdone.input \notin BlankInputs /\ sdone.stream = "ended") =>
    /\ sdone.out = <<StatusEvent>> \o Normalized(sdone.raws) \o <<CompleteEvent>>
    /\ Len(sdone.out) = Len(sdone.raws) + 2
    /\ sdone.out[1].event_type = "status"
    /\ sdone.out[Len(sdone.out)].event_type = "complete"
    /\ \A i \in 2..(Len(sdone.out) - 1) : sdone.out[i].event_type \notin {"status", "complete"}
    /\ sdone.engine_calls = 1
    /\ sdone.result.kind = "return"

C16_Witness ==
  /\ TurnDone
  /\ sdone.stream = "ended"
  /\ Len(sdone.raws) = 2
  /\ sdone.raws[1].type = Some("error")
  /\ sdone.raws[2].type = Some("tool_use")

\* C17: if the engine's stream raises, before its first event or after k
\* events, process_input raises nothing: it yields the status event, the k
\* images, then the error "Error processing input: ..." as the last event,
\* and no complete event.
C17_EngineFailureBecomesError ==
  (TurnDone /\ sdone.stream = "raised") =>
    /\ sdone.result.kind = "return"
    /\ sdone.out = <<StatusEvent>> \o Normalized(sdone.raws)
                     \o <<StreamEvent("error", <<"Error processing input:">> \o EngineError.msg)>>
    /\ Len(sdone.out) = Len(sdone.raws) + 2
    /\ "complete" \notin EventTypes(sdone.out)

C17_Witness ==
  /\ TurnDone
  /\ sdone.stream = "raised"
  /\ Len(sdone.raws) = 1
  /\ sdone.out[Len(sdone.out)].event_type = "error"

(***************************************************************************)
(* Properties of end_session                                               *)
(***************************************************************************)
\* C18: after end_session the session is not active, the engine handle is
\* None and tools_loaded is 0; end_session on a session that is not active
\* raises nothing and leaves the state unchanged.
C18_EndSessionResets ==
  sdone.op = "end_session" =>
    /\ sdone.result.kind = "return"
    /\ ~is_active(sess)
    /\ sess.agent = None
    /\ get_session_info(sess, mgr).tools_loaded = 0
    /\ ~sdone.pre[1].session_active => sdone.post = sdone.pre

\* C19: end_session never raises; when a step of its cleanup raises, the
\* cleanup is forced and the session still ends not active, with the
\* engine handle None and the tool list empty.
C19_EndSessionNeverRaises ==
  sdone.op = "end_session" =>
    /\ sdone.result.kind = "return"
    /\ SessionState = "Idle"
    /\ sess.agent = None
    /\ sdone.pre[1].session_active =>
         /\ sess.tools = <<>>
         /\ sess.streaming_handler = None

C19_Witness ==
  /\ sdone.op = "end_session"
  /\ sdone.fault
  /\ sdone.pre[1].tools # <<>>
  /\ sess = SessInit

\* C20: process_input does not change the session: during and after any
\* turn on an active session (normal end, empty input, engine failure) the
\* session is active with the engine handle and the tool list it had, so
\* that the guard of a following process_input passes.
C20_TurnLeavesSession ==
  /\ (turn.op = "process_input" /\ turn.pre[1].session_active) =>
       sess = turn.pre[1]
  /\ TurnDone =>
       /\ sdone.post = sdone.pre
       /\ sess = sdone.pre[1]
       /\ sess.session_active /\ sess.agent # None

C20_Witness ==
  /\ TurnDone
  /\ sdone.stream = "raised"
  /\ sess.tools # <<>>

\* C33: process_input on a session that is not active (never started,
\* start failed, or ended) raises RuntimeError on the first consumption of
\* its generator, yields no stream event and makes no call to the engine.
C33_InactiveTurnRaises ==
  (sdone.op = "process_input" /\ ~sdone.pre[1].session_active) =>
    /\ sdone.result = Raised(Exc("RuntimeError", SessionNotActiveMsg))
    /\ sdone.out = <<>>
    /\ sdone.raws = <<>>
    /\ sdone.engine_calls = 0
    /\ sdone.stream = NoTurn.stream
    /\ sdone.post = sdone.pre

\* a turn asked of a session whose start failed after its tools were loaded
C33_Witness ==
  /\ sdone.op = "process_input"
  /\ ~sdone.pre[1].session_active
  /\ sdone.pre[1].tools # <<>>
  /\ sdone.input = "hi"
  /\ is_connected(mgr)
  /\ sdone.result.kind = "raise"

\* C34: start_session on an active session is a no-op: it raises nothing,
\* loads no tools, builds no engine, and leaves the session active with the
\* engine handle and the tool list it had.
C34_StartOnActiveIsNoOp ==
  (sdone.op = "start_session" /\ sdone.pre[1].session_active) =>
    /\ sdone.result = Returned(None)
    /\ sdone.engine_built = 0
    /\ sdone.post = sdone.pre
    /\ sess = sdone.pre[1]
    /\ sess.session_active
    /\ sess.agent # None

\* the manager's cache no longer holds what the session loaded
C34_Witness ==
  /\ sdone.op = "start_session"
  /\ sdone.pre[1].session_active
  /\ is_connected(mgr)
  /\ tool_names(mgr) = <<>>
  /\ sess.tools # <<>>
  /\ sdone.result.kind = "return"

\* the tool named name is no longer served by the manager m
Stale(m, name) == ~is_connected(m) \/ ~InSeq(name, tool_names(m))

\* a tool of a session has been called on a manager that no longer serves it
StaleCallDone == done.op = "wrapper" /\ Stale(done.pre[1], done.name)

\* what a stale tool answers
StaleAnswers(m, name) ==
  {Returned(Str(ToolErrorText(name, Exc("ConnectionError", NotConnectedMsg)))),
   Returned(Str(ToolErrorText(name, Exc("ValueError", NotFoundMsg(name, tool_names(m))))))}

\* C40: a tool taken in a session's start-time list stays harmless after the
\* connection changes: once the manager is disconnected, or reconnected to a
\* server whose discovery no longer has the tool's name, calling the tool
\* returns the formatted error string, makes no transport call, and changes
\* neither the manager nor the session.
C40_StaleToolIsHarmless ==
  /\ [](StaleCallDone =>
         /\ done.result \in StaleAnswers(done.pre[1], done.name)
         /\ done.calls = <<>>
         /\ done.post = done.pre
         /\ mgr = done.pre[1])
  /\ [][(done'.op = "wrapper" /\ Stale(mgr, done'.name)) =>
          /\ mgr' = mgr
          /\ sess' = sess
          /\ turn' = turn]_vars

\* the session is active with the tool it loaded, the manager was
\* reconnected to a server without that tool, and the tool has been called
C40_Witness ==
  /\ StaleCallDone
  /\ sess.session_active
  /\ sess.tools = <<done.name>>
  /\ is_connected(mgr)
  /\ ~InSeq(done.name, tool_names(mgr))
  /\ done.result.kind = "return"
  /\ done.result.value.type = "str"

(***************************************************************************)
(* StreamingHandler (session.py 231-426)                                   *)
(*                                                                         *)
(* The data of a stream event handed to the handler is a string or a dict  *)
(* with any of the keys tool_name, arguments and result; a key can be      *)
(* present with the value None.                                            *)
(***************************************************************************)
RecentKept == 5

DictData(keys, tool_name, arguments, result) ==
  [kind |-> "dict", keys |-> keys, tool_name |-> tool_name,
   arguments |-> arguments, result |-> result, text |-> ""]
StrData(text) ==
  [kind |-> "str", keys |-> {}, tool_name |-> "", arguments |-> "",
   result |-> None, text |-> text]

HandlerEvent(event_type, data) == [event_type |-> event_type, data |-> data]

\* the data of a stream event built by the session: a tool_use event of
\* _convert_strands_event carries the three keys (lines 148-152)
EventData(ev) ==
  IF ev.event_type = "tool_use"
  THEN DictData({"tool_name", "arguments", "result"}, ev.tool.tool_name,
                ev.tool.arguments, ev.tool.result)
  ELSE StrData(IF ev.text = <<>> THEN "" ELSE ev.text[1])

ToolUseEvents ==
  {HandlerEvent("tool_use", DictData({"tool_name", "arguments", "result"}, "a", "{q:x}", Some("found"))),
   HandlerEvent("tool_use", DictData({"tool_name", "arguments", "result"}, "b", "{}", None)),
   HandlerEvent("tool_use", DictData({"tool_name", "arguments"}, "a", "{q:x}", None)),
   HandlerEvent("tool_use", DictData({"arguments"}, "", "{}", None)),
   HandlerEvent("tool_use", StrData("search"))}

OtherEvents ==
  {HandlerEvent("text", StrData("Hello")),
   HandlerEvent("text", StrData("ok")),
   HandlerEvent("error", StrData("boom")),
   HandlerEvent("status", StrData("Processing your request...")),
   HandlerEvent("complete", StrData("Response complete"))}

\* dict.get, key in dict, dict[key] = value on a dict kept in insertion order
DictHas(d, k) == \E i \in 1..Len(d) : d[i].key = k
DictGet(d, k, default) ==
  IF DictHas(d, k) THEN d[CHOOSE i \in 1..Len(d) : d[i].key = k].value ELSE default
DictSet(d, k, v) ==
  IF DictHas(d, k)
  THEN [i \in 1..Len(d) |-> IF d[i].key = k THEN [key |-> k, value |-> v] ELSE d[i]]
  ELSE Append(d, [key |-> k, value |-> v])
DictValues(d) == [i \in 1..Len(d) |-> d[i].value]

\* line 308: f"{tool_name}_{count}"
execution_id(tool_name, count) == <<tool_name, "_", count>>

\* line 314
execution_status(data) ==
  IF "result" \in data.keys THEN "completed" ELSE "executing"

\* lines 309-315 (the timestamp of the event is left out)
execution_record(data) ==
  [tool_name |-> data.tool_name,
   arguments |-> IF "arguments" \in data.keys THEN data.arguments ELSE "{}",
   result |-> IF "result" \in data.keys THEN data.result ELSE None,
   status |-> execution_status(data)]

\* lines 293-317
handle_tool_use_event_uncounted(h, data) ==
  IF data.kind = "dict" /\ "tool_name" \in data.keys
  THEN LET count == DictGet(h.tool_usage_count, data.tool_name, 0) + 1 IN
       [h EXCEPT !.current_tool_executions =
                    DictSet(h.current_tool_executions,
                            execution_id(data.tool_name, count), execution_record(data))]
  ELSE h

handle_tool_use_event(h, data) ==
  IF data.kind = "dict" /\ "tool_name" \in data.keys
  THEN LET count == DictGet(h.tool_usage_count, data.tool_name, 0) + 1 IN
       [h EXCEPT !.tool_usage_count = DictSet(h.tool_usage_count, data.tool_name, count),
                 !.current_tool_executions =
                    DictSet(h.current_tool_executions,
                            execution_id(data.tool_name, count), execution_record(data))]
  ELSE h

\* lines 279-291
handle_text_event(h, data) ==
  [h EXCEPT !.response_buffer = Append(h.response_buffer, data.text)]

\* lines 248-277 (no display callback was given)
handle_stream_event_tools_uncounted(h, ev) ==
  LET counted == [h EXCEPT !.total_events_processed = h.total_events_processed + 1] IN
  IF ev.event_type = "text" THEN handle_text_event(counted, ev.data)
  ELSE IF ev.event_type = "tool_use" THEN handle_tool_use_event(h, ev.data)
  ELSE counted

handle_stream_event(h, ev) ==
  LET counted == [h EXCEPT !.total_events_processed = h.total_events_processed + 1] IN
  IF ev.event_type = "text" THEN handle_text_event(counted, ev.data)
  ELSE IF ev.event_type = "tool_use" THEN handle_tool_use_event(counted, ev.data)
  ELSE counted

\* line 382: max(items, key=count), the first of the largest in insertion order
most_used(usage) ==
  IF usage = <<>> THEN None
  ELSE LET i == CHOOSE i \in 1..Len(usage) :
                  /\ \A j \in 1..Len(usage) : usage[j].value <= usage[i].value
                  /\ \A j \in 1..(i - 1) : usage[j].value < usage[i].value
       IN Some([name |-> usage[i].key, count |-> usage[i].value])

\* line 392: list(...)[-5:]
last_n_all(s, n) == s

last_n(s, n) == IF Len(s) <= n THEN s ELSE SubSeq(s, Len(s) - n + 1, Len(s))

\* lines 374-393
get_tool_usage_summary(h) ==
  [total_tool_calls |-> SumSeq(DictValues(h.tool_usage_count)),
   unique_tools_used |-> Len(h.tool_usage_count),
   tool_usage_count |-> h.tool_usage_count,
   most_used_tool |-> most_used(h.tool_usage_count),
   recent_executions |-> last_n(DictValues(h.current_tool_executions), RecentKept)]

\* lines 395-409 (the session duration is left out); len of the buffer is
\* the sum of the lengths of the texts appended to it
get_usage_stats(h) ==
  [total_events_processed |-> h.total_events_processed,
   tool_usage_count |-> h.tool_usage_count,
   unique_tools_used |-> Len(h.tool_usage_count),
   response_length |->
     SumSeq([i \in 1..Len(h.response_buffer) |-> Len(h.response_buffer[i])]),
   tool_executions |-> Len(h.current_tool_executions)]

\* lines 411-417
reset_stats_keeps_history(h) ==
  [h EXCEPT !.tool_usage_count = <<>>, !.total_events_processed = 0,
            !.response_buffer = <<>>]

reset_stats(h) ==
  [h EXCEPT !.tool_usage_count = <<>>, !.total_events_processed = 0,
            !.current_tool_executions = <<>>, !.response_buffer = <<>>]

\* handle_stream_event is called with the event ev
HandleStreamEvent(ev) ==
  /\ handler.total_events_processed < MaxRecorded
  /\ handler' = handle_stream_event(handler, ev)
  /\ hlog' = IF ev.event_type = "tool_use" THEN Append(hlog, ev) ELSE hlog
  /\ hseen' = [op |-> "handle_stream_event",
               calls |-> hseen.calls + 1,
               texts |-> IF ev.event_type = "text"
                         THEN Append(hseen.texts, ev.data) ELSE hseen.texts,
               pre |-> StreamingHandlerInit]
  /\ UNCHANGED <<mgr, tasks, wrappers, done, sess, turn, sdone, cli>>

ResetStats ==
  /\ handler' = reset_stats(handler)
  /\ hlog' = <<>>
  /\ hseen' = [NoCalls EXCEPT !.op = "reset_stats", !.pre = handler]
  /\ UNCHANGED <<mgr, tasks, wrappers, done, sess, turn, sdone, cli>>

\* a handler that is handed events and reset, in any order
NextHandler ==
  \/ \E ev \in ToolUseEvents \cup OtherEvents : HandleStreamEvent(ev)
  \/ ResetStats

SpecHandler == Init /\ [][NextHandler]_vars

\* the stream event that _convert_strands_event makes of the raw event e
\* (session.py 135-171) is handed to handle_stream_event (session.py 248)
RecordNormalized(e) ==
  LET ev == convert_strands_event(e) IN
  HandleStreamEvent(HandlerEvent(ev.event_type, EventData(ev)))

\* a handler that is handed the normalized events of an engine
NextPipeline ==
  \/ \E e \in RawEvents : RecordNormalized(e)
  \/ ResetStats

SpecPipeline == Init /\ [][NextPipeline]_vars

(***************************************************************************)
(* The value returned by list_tools (mcp.py 189)                           *)
(*                                                                         *)
(* list_tools returns self._available_tools.copy(): a new list holding     *)
(* the ToolInfo objects of the cache themselves.  ToolInfo is a pydantic   *)
(* model that is not frozen, so a caller can add to the returned list,     *)
(* remove from it, or assign to an attribute of one of its descriptors;    *)
(* the last reaches the object the cache holds at the same position.       *)
(***************************************************************************)
Mutations == {"append", "remove", "alter"}

\* the cache after the caller's mutation of the list it was returned
mutated_cache(m, kind, i, name) ==
  IF kind = "alter"
  THEN [m EXCEPT !.available_tools[i].name = name]
  ELSE m

\* the caller mutates the value the list_tools call just before returned
MutateReturned(t, kind, i, name) ==
  /\ CanStartSeq(t)
  /\ turn.pc = "idle"
  /\ done.op = "list_tools" /\ done.result.kind = "return" /\ done.task = t
  /\ kind \in Mutations
  /\ IF kind = "append" THEN i = 1 ELSE i \in 1..Len(done.result.value)
  /\ name \in CallNames
  /\ mgr' = mutated_cache(mgr, kind, i, name)
  /\ done' = [NoDone EXCEPT !.task = t, !.op = "mutate_returned",
                            !.last_disconnect = done.last_disconnect,
                            !.pre = Some(mgr),
                            !.post = Some(mutated_cache(mgr, kind, i, name)),
                            !.name = name, !.args = kind]
  /\ sdone' = NoSDone
  /\ UNCHANGED <<tasks, wrappers, sess, turn, hvars, cli>>

\* one caller that lists the tools, mutates what it was returned, and
\* lists and calls again
NextCopy ==
  \E t \in Tasks :
    \/ CanStartSeq(t) /\ \E config \in SessConfigs : ConnectCall(t, config)
    \/ CanStartSeq(t) /\ DisconnectCall(t)
    \/ CanStartSeq(t) /\ ListTools(t)
    \/ CanStartSeq(t) /\ \E name \in CallNames, args \in ArgSets : CallTool(t, name, args)
    \/ \E kind \in Mutations, i \in 1..MaxTools, name \in CallNames :
         MutateReturned(t, kind, i, name)
    \/ \E o \in {"ok", "raise"} : DisconnectCloseResume(t, o)
    \/ \E o \in {"ok", "raise"} : ConnectCloseResume(t, o)
    \/ \E o \in {"ok", "raise"} : ConnectSpawnResume(t, o)
    \/ \E o \in {"ok", "raise", "timeout"} : ConnectInitResume(t, o)
    \/ ConnectListFail(t)
    \/ \E tools \in Discovery : ConnectListResume(t, tools)
    \/ CallToolFail(t)
    \/ \E res \in ToolResults : CallToolResume(t, res)

SpecCopy == Init /\ [][NextCopy]_vars

(***************************************************************************)
(* CLIApp._run_interactive_session and its conversation loop               *)
(* (cli.py 360-631)                                                        *)
(*                                                                         *)
(* The workflow connects, starts a session, reads the user's input turn    *)
(* by turn, ends the session and disconnects.  In a turn it consumes the   *)
(* generator of process_input with "async for": it asks for the next       *)
(* stream event, hands the event to _handle_stream_event, and asks again.  *)
(* The display called by _handle_stream_event is not guarded; when it      *)
(* raises, the handler of lines 627-629 leaves the turn, and the generator *)
(* is left suspended at its yield until it is finalized.                   *)
(***************************************************************************)
Interrupt == "<KeyboardInterrupt>"
CliInputs == {Interrupt, "", "/exit", "/help", "hi"}

\* the raw events of the engine in a turn of the workflow
CliRawEvents ==
  {e \in RawEvents : ~e.broken /\ e.text # None}
  \cup {e \in RawEvents : e.tool_name # None}

\* lines 601-616: what the loop does with the line it read
loop_step_interrupt_is_fault(input) ==
  IF input = Interrupt THEN "fault"
  ELSE IF input = "" THEN "continue"
  ELSE IF input = "/exit" THEN "break"
  ELSE IF input = "/help" THEN "continue"
  ELSE "turn"

loop_step(input) ==
  IF input = Interrupt THEN "break"
  ELSE IF input = "" THEN "continue"
  ELSE IF input = "/exit" THEN "break"
  ELSE IF input = "/help" THEN "continue"
  ELSE "turn"

\* the engine stream of the generator r is open
EngineOpen(r) == r.engine_calls > 0 /\ r.stream = ""

CliKeep == UNCHANGED <<mgr, tasks, wrappers, done, sess, turn, sdone, hvars>>

\* _run_interactive_session is called
CliRun ==
  /\ cli.pc = "off"
  /\ CanCallSession
  /\ cli' = [cli EXCEPT !.pc = "w_connect"]
  /\ CliKeep

\* lines 474-475: connect is awaited
CliConnect(config) ==
  /\ cli.pc = "w_connect"
  /\ done.op # "connect"
  /\ CanStartSess(SeqTask)
  /\ ConnectCall(SeqTask, config)

\* lines 477-503 and 396-399: connect has returned or raised
CliConnected ==
  /\ cli.pc = "w_connect"
  /\ done.op = "connect"
  /\ cli' = IF done.result.kind = "return"
            THEN [cli EXCEPT !.pc = "w_start"]
            ELSE [cli EXCEPT !.pc = "w_final", !.code = 1]
  /\ CliKeep

\* lines 531-536
CliStartSession ==
  /\ cli.pc = "w_start"
  /\ StartSessionCall
  /\ cli' = [cli EXCEPT !.pc = "w_starting"]

\* lines 536-550: start_session returns (the loop begins) or raises
CliStartSessionRun(outcome) ==
  /\ cli.pc = "w_starting"
  /\ StartSessionRun(outcome)
  /\ cli' = IF sdone'.result.kind = "raise"
            THEN [cli EXCEPT !.pc = "w_end", !.code = 1]
            ELSE [cli EXCEPT !.pc = "l_input"]

\* lines 600-621 and 631-635: a line is read, or the read is interrupted
CliInput(input) ==
  /\ cli.pc = "l_input"
  /\ input \in CliInputs
  /\ LET step == loop_step(input) IN
     IF step = "turn"
     THEN /\ cli.turns < MaxTurns
          /\ ProcessInputCall(input)
          /\ cli' = [cli EXCEPT !.pc = "l_pull", !.turns = cli.turns + 1, !.handled = 0]
     ELSE /\ cli' = IF step = "break"
                    THEN [cli EXCEPT !.pc = "w_end", !.code = 0,
                                     !.interrupted = (input = Interrupt)]
                    ELSE IF step = "fault"
                    THEN [cli EXCEPT !.pc = "w_end", !.code = 1,
                                     !.interrupted = (input = Interrupt)]
                    ELSE cli
          /\ CliKeep

\* line 622: "async for" asks the generator for its next event.  The event
\* it yields is handed to the loop's body; when the generator raises
\* (lines 627-629) or ends, the loop reads the next line
CliAfterPull == IF turn'.pc = "idle" THEN "l_input" ELSE "l_handle"

CliPullFirst ==
  /\ cli.pc = "l_pull"
  /\ ProcessInputFirst
  /\ cli' = [cli EXCEPT !.pc = CliAfterPull]

CliPullNext_eager(e) ==
  /\ cli.pc \in {"l_pull", "l_handle"}
  /\ e \in CliRawEvents
  /\ ProcessInputNext(e)
  /\ cli' = [cli EXCEPT !.pc = CliAfterPull]

CliPullNext(e) ==
  /\ cli.pc = "l_pull"
  /\ e \in CliRawEvents
  /\ ProcessInputNext(e)
  /\ cli' = [cli EXCEPT !.pc = CliAfterPull]

CliPullEnd ==
  /\ cli.pc = "l_pull"
  /\ ProcessInputEnd
  /\ cli' = [cli EXCEPT !.pc = CliAfterPull]

CliPullFail ==
  /\ cli.pc = "l_pull"
  /\ ProcessInputFail
  /\ cli' = [cli EXCEPT !.pc = CliAfterPull]

CliPullReturn ==
  /\ cli.pc = "l_pull"
  /\ ProcessInputReturn
  /\ cli' = [cli EXCEPT !.pc = CliAfterPull]

\* lines 623 and 627-629: _handle_stream_event displays the event; when the
\* display raises, the loop goes on to the next line and the generator,
\* suspended at its yield, is dropped
CliHandleEvent(outcome) ==
  /\ cli.pc = "l_handle"
  /\ IF outcome = "ok"
     THEN /\ cli' = [cli EXCEPT !.pc = "l_pull", !.handled = cli.handled + 1]
          /\ CliKeep
     ELSE /\ cli' = [cli EXCEPT !.pc = "l_input",
                                !.dropped = Append(cli.dropped, EngineOpen(turn))]
          /\ turn' = NoTurn
          /\ sdone' = NoSDone
          /\ UNCHANGED <<mgr, tasks, wrappers, done, sess, hvars>>

\* the event loop finalizes a dropped generator (aclose), at a time the
\* workflow does not choose
CliFinalize(i) ==
  /\ i \in 1..Len(cli.dropped)
  /\ cli' = [cli EXCEPT !.dropped =
               SubSeq(cli.dropped, 1, i - 1) \o SubSeq(cli.dropped, i + 1, Len(cli.dropped))]
  /\ CliKeep

\* lines 550-553: the finally of _handle_conversation_session
CliEndSession ==
  /\ cli.pc = "w_end"
  /\ EndSessionCall
  /\ cli' = [cli EXCEPT !.pc = IF sess.session_active THEN "w_ending" ELSE "w_final",
                        !.end_calls = cli.end_calls + 1]

CliEndSessionRun(outcome) ==
  /\ cli.pc = "w_ending"
  /\ EndSessionRun(outcome)
  /\ cli' = [cli EXCEPT !.pc = "w_final"]

\* lines 412-415: the finally of _run_interactive_session
CliDisconnect ==
  /\ cli.pc = "w_final"
  /\ CanStartSess(SeqTask)
  /\ is_connected(mgr)
  /\ DisconnectCall(SeqTask)

\* the workflow returns its exit code
CliExit ==
  /\ cli.pc = "w_final"
  /\ CanStartSess(SeqTask)
  /\ ~is_connected(mgr)
  /\ cli' = [cli EXCEPT !.pc = "exited"]
  /\ CliKeep

NextCli ==
  \/ CliRun
  \/ \E config \in SessConfigs : CliConnect(config)
  \/ \E t \in Tasks :
       \/ \E o \in {"ok", "raise"} : ConnectSpawnResume(t, o)
       \/ \E o \in {"ok", "raise", "timeout"} : ConnectInitResume(t, o)
       \/ ConnectListFail(t)
       \/ \E tools \in SessDiscovery : ConnectListResume(t, tools)
       \/ \E o \in {"ok", "raise"} : DisconnectCloseResume(t, o)
  \/ CliConnected
  \/ CliStartSession
  \/ \E o \in {"ok", "raise"} : CliStartSessionRun(o)
  \/ \E input \in CliInputs : CliInput(input)
  \/ CliPullFirst
  \/ \E e \in CliRawEvents : CliPullNext(e)
  \/ CliPullEnd
  \/ CliPullFail
  \/ CliPullReturn
  \/ \E o \in {"ok", "raise"} : CliHandleEvent(o)
  \/ \E i \in 1..MaxTurns : CliFinalize(i)
  \/ CliEndSession
  \/ \E o \in {"ok", "raise"} : CliEndSessionRun(o)
  \/ CliDisconnect
  \/ CliExit

SpecCli == Init /\ [][NextCli]_vars

(***************************************************************************)
(* Properties of the discovery cache                                       *)
(***************************************************************************)
\* the names the server's list_tools answered to the connect that
\* succeeded last, as connect recorded them at line 90
DiscoveredNames(m) == m.connection_status.available_tools

DescriptorNames(tools) == [i \in 1..Len(tools) |-> tools[i].name]

\* C24: after a successful connect the manager is connected, with a
\* connection time and the server's name; list_tools returns exactly the
\* discovered names in discovery order; call_tool with a name outside the
\* discovered names raises the ValueError of the name check.
C24_CacheIsDiscovery ==
  /\ (done.op = "connect" /\ done.result.kind = "return") =>
       /\ is_connected(mgr)
       /\ mgr.connection_status.connection_time # None
       /\ mgr.connection_status.server_name = done.config[1].name
       /\ tool_names(mgr) = DiscoveredNames(mgr)
  /\ (done.op = "list_tools" /\ done.result.kind = "return") =>
       DescriptorNames(done.result.value) = DiscoveredNames(mgr)
  /\ (/\ done.op = "call_tool"
      /\ done.pre[1].connection_status.connected
      /\ done.pre[1].client_session # None
      /\ ~InSeq(done.name, DiscoveredNames(done.pre[1]))) =>
       /\ done.result.kind = "raise"
       /\ done.result.exc.type = "ValueError"
       /\ done.calls = <<>>

\* no call is under way
Quiescent == \A t \in Tasks : tasks[t].pc = "idle"

C39_EmptyWhenNotConnected ==
  ~is_connected(mgr) =>
    /\ mgr.available_tools = <<>>
    /\ mgr.connection_status.available_tools = <<>>

\* C39: in every reachable state in which is_connected() is false the
\* cached tool list and the status's tool-name list are empty; while
\* is_connected() is true and no call is under way the status's tool-name
\* list is the names of the cached list in the same order.
C39_StatusListMatchesCache ==
  /\ C39_EmptyWhenNotConnected
  /\ (is_connected(mgr) /\ Quiescent) =>
       mgr.connection_status.available_tools = tool_names(mgr)

\* C25: list_tools returns a copy of the cached list: whatever the caller
\* does to the returned value (adding, removing, altering a descriptor),
\* a later list_tools returns what it would have returned, and call_tool
\* accepts the names it would have accepted.
C25_ReturnedListIsACopy ==
  done.op = "mutate_returned" =>
    /\ mgr.available_tools = done.pre[1].available_tools
    /\ \A name \in CallNames : call_tool_check(mgr, name) = call_tool_check(done.pre[1], name)

(***************************************************************************)
(* Properties of _convert_strands_event                                    *)
(***************************************************************************)
\* the raw events of the turn in progress or just ended, and their images
SeenRaws == IF sdone.op = "process_input" THEN sdone.raws ELSE turn.raws
SeenOut == IF sdone.op = "process_input" THEN sdone.out ELSE turn.out

TextOf(text) == [event_type |-> "text", text |-> <<text>>, tool |-> NoTool]
ErrorOf(text) == [event_type |-> "error", text |-> <<text>>, tool |-> NoTool]

\* C26: a raw event is mapped by its type attribute: "text" to a text event
\* of its text, or of str(event) when it has no text; "tool_use" to a
\* tool_use event whose name defaults to "unknown", arguments to the empty
\* dict and result to None; "error" to an error event of its message, or of
\* str(event); any other or missing type to a text event of str(event).
C26_ConvertByType ==
  \A i \in 1..Len(SeenRaws) :
    LET e == SeenRaws[i]
        image == SeenOut[i + 1] IN
    ~e.broken =>
      /\ (e.type = Some("text") /\ e.text # None) => image = TextOf(e.text[1])
      /\ (e.type = Some("text") /\ e.text = None) => image = TextOf(e.repr)
      /\ e.type = Some("tool_use") =>
           /\ image.event_type = "tool_use"
           /\ image.tool.tool_name = (IF e.tool_name = None THEN "unknown" ELSE e.tool_name[1])
           /\ image.tool.arguments = (IF e.arguments = None THEN "{}" ELSE e.arguments[1])
           /\ image.tool.result = e.result
      /\ (e.type = Some("error") /\ e.message # None) => image = ErrorOf(e.message[1])
      /\ (e.type = Some("error") /\ e.message = None) => image = ErrorOf(e.repr)
      /\ e.type \notin {Some("text"), Some("tool_use"), Some("error")} => image = TextOf(e.repr)

C26_Witness ==
  /\ Len(SeenRaws) = 2
  /\ SeenRaws[1].type = Some("tool_use") /\ SeenRaws[1].tool_name = None
  /\ SeenRaws[2].type = None
  /\ Len(SeenOut) >= 3

\* C27: the conversion never raises: an event whose inspection raises is
\* turned into the error event "Event conversion error: ...", nothing
\* reaches process_input's handler, and the turn goes on with the next raw
\* event.
C27_ConversionNeverRaises ==
  /\ \A i \in 1..Len(SeenRaws) :
       SeenRaws[i].broken =>
         /\ Len(SeenOut) > i
         /\ SeenOut[i + 1].event_type = "error"
         /\ SeenOut[i + 1].text = <<"Event conversion error:">> \o AttributeError.msg
  /\ (turn.op = "process_input" /\ turn.raws # <<>> /\ turn.stream = "") =>
       /\ turn.pc = "p_stream"
       /\ Len(turn.out) = Len(turn.raws) + 1
  /\ (TurnDone /\ sdone.stream = "ended") =>
       sdone.out[Len(sdone.out)].event_type = "complete"

C27_Witness ==
  /\ TurnDone
  /\ sdone.stream = "ended"
  /\ Len(sdone.raws) = 2
  /\ sdone.raws[1].broken
  /\ ~sdone.raws[2].broken
  /\ sdone.out[3].event_type = "tool_use"

(***************************************************************************)
(* Properties of the StreamingHandler                                      *)
(***************************************************************************)
CarriesName(ev) == ev.data.kind = "dict" /\ "tool_name" \in ev.data.keys

\* the recorded tool_use events that carry a tool name, in recording order
NamedUses == SelectSeq(hlog, CarriesName)

UsedNames == {NamedUses[i].data.tool_name : i \in 1..Len(NamedUses)}

\* the recorded uses of the name n among the first k named events
UsesOf(n, k) == Cardinality({i \in 1..k : NamedUses[i].data.tool_name = n})

\* C28: for any sequence of events recorded since construction or the last
\* reset, the summary's total_tool_calls is the number of recorded tool_use
\* events that carry a tool name, unique_tools_used the number of distinct
\* names among them, and most_used_tool a name of maximal count with that
\* count, or None when no tool was used.
C28_SummaryCounts ==
  LET summary == get_tool_usage_summary(handler)
      all == Len(NamedUses) IN
  /\ summary.total_tool_calls = all
  /\ summary.unique_tools_used = Cardinality(UsedNames)
  /\ UsedNames = {} => summary.most_used_tool = None
  /\ UsedNames # {} =>
       /\ summary.most_used_tool # None
       /\ summary.most_used_tool[1].name \in UsedNames
       /\ summary.most_used_tool[1].count = UsesOf(summary.most_used_tool[1].name, all)
       /\ \A n \in UsedNames : UsesOf(n, all) <= summary.most_used_tool[1].count

C28_Witness ==
  /\ Len(hlog) = 4
  /\ Len(NamedUses) = 3
  /\ UsesOf("a", 3) = 2
  /\ UsesOf("b", 3) = 1
  /\ get_tool_usage_summary(handler).most_used_tool = Some([name |-> "a", count |-> 2])

\* a result is present in the event
HasResult(data) == "result" \in data.keys /\ data.result # None

\* C29: recording a tool_use event stores an execution record under the
\* key made of the name and the name's occurrence count, with the status
\* "executing" if the event carries no result yet, else "completed".
C29_ExecutionRecordStatus ==
  \A i \in 1..Len(NamedUses) :
    LET data == NamedUses[i].data
        key == execution_id(data.tool_name, UsesOf(data.tool_name, i)) IN
    /\ DictHas(handler.current_tool_executions, key)
    /\ DictGet(handler.current_tool_executions, key, None).tool_name = data.tool_name
    /\ DictGet(handler.current_tool_executions, key, None).status =
         (IF HasResult(data) THEN "completed" ELSE "executing")

\* the execution records of the recorded events, in recording order
RecordedExecutions == [i \in 1..Len(NamedUses) |-> execution_record(NamedUses[i].data)]

\* C30: after any number of recorded tool_use events the summary's
\* recent_executions holds at most 5 records, and they are the 5 most
\* recently recorded executions in recording order.
C30_RecentExecutionsBounded ==
  LET recent == get_tool_usage_summary(handler).recent_executions
      all == RecordedExecutions IN
  /\ Len(recent) <= 5
  /\ Len(recent) = Min(5, Len(all))
  /\ \A j \in 1..Len(recent) : recent[j] = all[Len(all) - Len(recent) + j]

C30_Witness ==
  /\ Len(NamedUses) = 6
  /\ Len(get_tool_usage_summary(handler).recent_executions) = 5
  /\ NamedUses[1].data.tool_name = "b"
  /\ \A j \in 1..5 : get_tool_usage_summary(handler).recent_executions[j].tool_name = "a"

\* what a freshly constructed handler reports
FreshStats == get_usage_stats(StreamingHandlerInit)
FreshSummary == get_tool_usage_summary(StreamingHandlerInit)

\* C31: after reset_stats, whatever events were recorded before it,
\* get_usage_stats and get_tool_usage_summary report what a freshly
\* constructed handler reports: 0 events, 0 calls, 0 unique names, response
\* length 0, no executions, no most used tool.
C31_ResetIsFresh ==
  hseen.op = "reset_stats" =>
    LET stats == get_usage_stats(handler)
        summary == get_tool_usage_summary(handler) IN
    /\ stats = FreshStats
    /\ summary = FreshSummary
    /\ stats.total_events_processed = 0
    /\ stats.unique_tools_used = 0
    /\ stats.response_length = 0
    /\ stats.tool_executions = 0
    /\ stats.tool_usage_count = <<>>
    /\ summary.total_tool_calls = 0
    /\ summary.unique_tools_used = 0
    /\ summary.most_used_tool = None
    /\ summary.recent_executions = <<>>

C31_Witness ==
  /\ hseen.op = "reset_stats"
  /\ hseen.pre.total_events_processed = 4
  /\ Len(hseen.pre.current_tool_executions) = 2
  /\ Len(hseen.pre.tool_usage_count) = 2
  /\ hseen.pre.response_buffer = <<"Hello">>
  /\ handler = StreamingHandlerInit

\* the summed length of the data of the recorded text events
RecordedTextLength == SumSeq([i \in 1..Len(hseen.texts) |-> Len(hseen.texts[i].text)])

\* C32: handle_stream_event adds exactly one to the events-processed
\* counter for every event whatever its type (tool_use with malformed data
\* included) and only text events extend the response buffer:
\* total_events_processed is the number of calls since the last reset and
\* response_length the summed length of the recorded text data.
C32_EveryEventCounted ==
  /\ get_usage_stats(handler).total_events_processed = hseen.calls
  /\ get_usage_stats(handler).response_length = RecordedTextLength

C32_Witness ==
  /\ hseen.calls = 6
  /\ Len(hseen.texts) = 2
  /\ RecordedTextLength = 7
  /\ Len(hlog) = 2
  /\ Len(NamedUses) = 0
  /\ get_usage_stats(handler).total_events_processed = 6
  /\ get_usage_stats(handler).response_length = 7

\* C38: a raw engine event of type "tool_use" that carries no result, once
\* converted by _convert_strands_event and handed to handle_stream_event,
\* has an execution record with the status "executing" and no result.
C38_PendingToolUseIsExecuting ==
  \A i \in 1..Len(NamedUses) :
    LET data == NamedUses[i].data
        key == execution_id(data.tool_name, UsesOf(data.tool_name, i))
        record == DictGet(handler.current_tool_executions, key, None) IN
    data.result = None =>
      /\ DictHas(handler.current_tool_executions, key)
      /\ record.result = None
      /\ record.status = "executing"

(***************************************************************************)
(* Properties of the conversation loop                                     *)
(***************************************************************************)
InTurn == turn.op = "process_input"

\* the engine streams that are open: the one of the turn in progress and
\* those of the generators the loop dropped
OpenEngineStreams ==
  (IF InTurn /\ EngineOpen(turn) THEN 1 ELSE 0)
    + Cardinality({i \in 1..Len(cli.dropped) : cli.dropped[i]})

\* C21: turns are strictly sequential in the conversation loop:
\* process_input is not running for a session while the engine stream of an
\* earlier call is still open, and at most one engine stream is open.
C21_TurnsSequential ==
  /\ OpenEngineStreams <= 1
  /\ InTurn => \A i \in 1..Len(cli.dropped) : ~cli.dropped[i]

\* the events of the engine part of the stream the loop has handled
EngineConsumed ==
  IF cli.handled = 0 THEN 0
  ELSE IF cli.handled - 1 > Len(turn.raws) THEN Len(turn.raws)
  ELSE cli.handled - 1

\* C22: the stream is pulled, with at most one event in flight: in a turn
\* the raw events produced exceed the engine events the loop has handled by
\* at most one, and by one only while the loop holds that event and has not
\* asked for the next.
C22_PullBased ==
  InTurn =>
    /\ Len(turn.raws) - EngineConsumed \in {0, 1}
    /\ Len(turn.raws) - EngineConsumed = 1 => cli.pc = "l_handle"
    /\ cli.pc = "l_pull" => Len(turn.out) = cli.handled

C22_Witness ==
  /\ InTurn
  /\ Len(turn.raws) = 2
  /\ cli.handled = 2
  /\ cli.pc = "l_handle"

\* C23: an interrupt (or end of input) raised while the loop waits for the
\* next line is a clean end of the session: the loop is left, end_session
\* is called exactly once, and the workflow returns 0.
C23_InterruptEndsCleanly ==
  cli.interrupted =>
    /\ cli.pc \in {"w_end", "w_ending", "w_final", "exited"}
    /\ cli.code = 0
    /\ cli.end_calls = (IF cli.pc = "w_end" THEN 0 ELSE 1)
    /\ cli.pc \in {"w_final", "exited"} => ~sess.session_active

C23_Witness ==
  /\ cli.interrupted
  /\ cli.pc = "exited"
  /\ cli.turns = 1
  /\ cli.end_calls = 1
  /\ cli.code = 0

====
